---- MODULE Spec2Model ----
(***************************************************************************)
(* A model of the cometguard risk engine (risk-engine/src): the fixed-     *)
(* point conversion of utils.rs / compound.rs, the ledger acquisition of   *)
(* compound.rs and the rule checks and scoring of risk.rs.                 *)
(*                                                                         *)
(* Integers of the program are wider than the integers of the model        *)
(* checker (u64, u128 and U256 against 32 bits), so they are kept as       *)
(* sequences of 15-bit limbs, least significant first, without leading     *)
(* zero limbs.  f64 values are kept as sign, 53-bit mantissa and binary    *)
(* exponent, and every f64 operation rounds to nearest, ties to even, as   *)
(* the hardware does.                                                      *)
(***************************************************************************)
EXTENDS Integers, Sequences, FiniteSets, TLC

----------------------------------------------------------------------------
(* Unsigned integers of any width: u8 .. U256 of the program.              *)

LimbBits == 5 * 3
Base == 2 ^ LimbBits

Max(i, j) == IF i >= j THEN i ELSE j
Min(i, j) == IF i <= j THEN i ELSE j

Limb(a, i) == IF i <= Len(a) THEN a[i] ELSE 0

RECURSIVE Norm(_)
Norm(a) ==
    IF a = << >> THEN << >>
    ELSE IF a[Len(a)] = 0 THEN Norm(SubSeq(a, 1, Len(a) - 1))
    ELSE a

RECURSIVE NatOfInt(_)
NatOfInt(n) == IF n = 0 THEN << >> ELSE <<n % Base>> \o NatOfInt(n \div Base)

NatIsZero(a) == a = << >>

RECURSIVE NatAddFrom(_, _, _, _)
NatAddFrom(a, b, i, c) ==
    IF i > Len(a) /\ i > Len(b)
    THEN (IF c = 0 THEN << >> ELSE <<c>>)
    ELSE LET s == Limb(a, i) + Limb(b, i) + c
         IN  <<s % Base>> \o NatAddFrom(a, b, i + 1, s \div Base)

NatAdd(a, b) == NatAddFrom(a, b, 1, 0)

RECURSIVE NatCmpFrom(_, _, _)
NatCmpFrom(a, b, i) ==
    IF i = 0 THEN 0
    ELSE IF a[i] < b[i] THEN -1
    ELSE IF a[i] > b[i] THEN 1
    ELSE NatCmpFrom(a, b, i - 1)

\* -1, 0 or 1 as a < b, a = b or a > b.
NatCmp(a, b) ==
    IF Len(a) < Len(b) THEN -1
    ELSE IF Len(a) > Len(b) THEN 1
    ELSE NatCmpFrom(a, b, Len(a))

RECURSIVE NatSubFrom(_, _, _, _)
NatSubFrom(a, b, i, br) ==
    IF i > Len(a) THEN << >>
    ELSE LET d == a[i] - Limb(b, i) - br
         IN  IF d < 0 THEN <<d + Base>> \o NatSubFrom(a, b, i + 1, 1)
             ELSE <<d>> \o NatSubFrom(a, b, i + 1, 0)

\* a - b for a >= b.
NatSub(a, b) == Norm(NatSubFrom(a, b, 1, 0))

RECURSIVE NatMulSmallFrom(_, _, _, _)
NatMulSmallFrom(a, k, i, c) ==
    IF i > Len(a) THEN (IF c = 0 THEN << >> ELSE <<c>>)
    ELSE LET p == a[i] * k + c
         IN  <<p % Base>> \o NatMulSmallFrom(a, k, i + 1, p \div Base)

\* a * k for 0 <= k < Base.
NatMulSmall(a, k) == IF k = 0 THEN << >> ELSE NatMulSmallFrom(a, k, 1, 0)

Zeros(n) == [i \in 1..n |-> 0]

\* The partial sum is evaluated at each row (its length is asked for), so that
\* the rows are not left nested in one another.
RECURSIVE NatMulFrom(_, _, _, _)
NatMulFrom(a, b, i, acc) ==
    IF i > Len(b) THEN acc
    ELSE LET Placed(row) == IF row = << >> THEN << >> ELSE Zeros(i - 1) \o row
             Rows(acc2) == IF Len(acc2) >= 0 THEN NatMulFrom(a, b, i + 1, acc2) ELSE << >>
         IN  Rows(NatAdd(acc, Placed(NatMulSmall(a, b[i]))))

NatMul(a, b) == NatMulFrom(a, b, 1, << >>)

RECURSIVE NatDivSmallFrom(_, _, _, _)
NatDivSmallFrom(a, k, i, r) ==
    IF i = 0 THEN << >>
    ELSE LET v == r * Base + a[i]
         IN  NatDivSmallFrom(a, k, i - 1, v % k) \o <<v \div k>>

\* floor(a / k) for 0 < k <= Base.
NatDivSmall(a, k) == Norm(NatDivSmallFrom(a, k, Len(a), 0))

RECURSIVE IntBitLen(_)
IntBitLen(n) == IF n = 0 THEN 0 ELSE 1 + IntBitLen(n \div 2)

NatBitLen(a) ==
    IF a = << >> THEN 0 ELSE (Len(a) - 1) * LimbBits + IntBitLen(a[Len(a)])

\* a * 2^k.
NatShl(a, k) ==
    IF a = << >> THEN << >>
    ELSE Zeros(k \div LimbBits) \o NatMulSmall(a, 2 ^ (k % LimbBits))

\* floor(a / 2^k).
NatShr(a, k) ==
    IF k \div LimbBits >= Len(a) THEN << >>
    ELSE NatDivSmall(SubSeq(a, k \div LimbBits + 1, Len(a)), 2 ^ (k % LimbBits))

\* a mod 2^k: the wrapping of a k-bit unsigned integer.
NatLowBits(a, k) ==
    LET full == k \div LimbBits
        part == k % LimbBits
    IN  IF Len(a) <= full THEN a
        ELSE Norm(SubSeq(a, 1, full) \o <<a[full + 1] % (2 ^ part)>>)

NatBit(a, k) == (Limb(a, k \div LimbBits + 1) \div (2 ^ (k % LimbBits))) % 2

NatIsOdd(a) == a # << >> /\ a[1] % 2 = 1

\* The largest digit k in lo..hi with k * b <= r, by bisection.
RECURSIVE QuotDigit(_, _, _, _)
QuotDigit(r, b, lo, hi) ==
    IF lo = hi THEN lo
    ELSE LET mid == (lo + hi + 1) \div 2
         IN  IF NatCmp(NatMulSmall(b, mid), r) <= 0
             THEN QuotDigit(r, b, mid, hi)
             ELSE QuotDigit(r, b, lo, mid - 1)

\* Long division, one limb of the dividend at a step, the most significant
\* first: <<floor(a / b), a mod b>> for b > 0.  The two leading limbs of the
\* running remainder and the leading limb of b bound the digit from both
\* sides; the bisection finds it between the bounds.
RECURSIVE NatDivModFrom(_, _, _, _, _)
NatDivModFrom(a, b, i, q, r) ==
    IF i = 0 THEN <<Norm(q), r>>
    ELSE LET Rest(d, r3) ==
                 IF Len(r3) >= 0 THEN NatDivModFrom(a, b, i - 1, <<d>> \o q, r3) ELSE << >>
             Step(r2, d) == Rest(d, NatSub(r2, NatMulSmall(b, d)))
             Digit(r2, top) ==
                 IF NatCmp(r2, b) < 0 THEN 0
                 ELSE QuotDigit(r2, b, top \div (b[Len(b)] + 1),
                                Min(Base - 1, top \div b[Len(b)]))
             Bring(r2) ==
                 Step(r2, Digit(r2, Limb(r2, Len(b) + 1) * Base + Limb(r2, Len(b))))
         IN  Bring(Norm(<<a[i]>> \o r))

\* The divisor is scaled by a power of two that fills its leading limb, and
\* the dividend with it: the quotient is the same, the remainder is scaled.
NatDivMod(a, b) ==
    LET s == LimbBits - IntBitLen(b[Len(b)])
        Unscaled(qr) == <<qr[1], NatShr(qr[2], s)>>
        Filled(a2, b2) == Unscaled(NatDivModFrom(a2, b2, Len(a2), << >>, << >>))
    IN  Filled(NatShl(a, s), NatShl(b, s))

\* a^n by repeated squaring.
RECURSIVE NatPow(_, _)
NatPow(a, n) ==
    IF n = 0 THEN <<1>>
    ELSE LET Odd(sq) == IF n % 2 = 1 THEN NatMul(sq, a) ELSE sq
             Square(h) == Odd(NatMul(h, h))
         IN  Square(NatPow(a, n \div 2))

Ten == <<10>>

----------------------------------------------------------------------------
(* f64: IEEE 754 binary64.  A finite value is (-1)^s * m * 2^e with the     *)
(* mantissa m below 2^53; m has exactly 53 bits unless the value is zero    *)
(* or subnormal (e = F64MinExp), so equal values have equal records, up to  *)
(* the sign of zero.                                                        *)

F64Prec == 53
F64MinExp == -1074
F64MaxExp == 1023

F64NaN == [k |-> "nan", s |-> 0, m |-> << >>, e |-> 0]
F64Inf(s) == [k |-> "inf", s |-> s, m |-> << >>, e |-> 0]
F64Zero(s) == [k |-> "fin", s |-> s, m |-> << >>, e |-> 0]
F64Fin(s, m, e) == [k |-> "fin", s |-> s, m |-> m, e |-> e]

F64IsNaN(a) == a.k = "nan"
F64IsZero(a) == a.k = "fin" /\ a.m = << >>
SignXor(s, t) == IF s = t THEN 0 ELSE 1

\* (-1)^s * n * 2^e rounded to the nearest f64, ties to the even mantissa;
\* beyond the largest finite value the result is an infinity.
F64Round(s, n, e) ==
    IF n = << >> THEN F64Zero(s)
    ELSE LET Packed(m2, e2) ==
                 IF m2 = << >> THEN F64Zero(s)
                 ELSE IF e2 + NatBitLen(m2) - 1 > F64MaxExp THEN F64Inf(s)
                 ELSE F64Fin(s, m2, e2)
             Carried(q2, e2) ==
                 IF NatBitLen(q2) > F64Prec THEN Packed(NatShr(q2, 1), e2 + 1)
                 ELSE Packed(q2, e2)
             Nearest(q, c, e2) ==
                 Carried(IF c > 0 \/ (c = 0 /\ NatIsOdd(q)) THEN NatAdd(q, <<1>>) ELSE q, e2)
             Exact(len, up) ==
                 IF e + len - 1 > F64MaxExp THEN F64Inf(s)
                 ELSE F64Fin(s, NatShl(n, up), e - up)
             Shifted(len, sh) ==
                 IF sh <= 0 THEN Exact(len, Min(F64Prec - len, e - F64MinExp))
                 ELSE Nearest(NatShr(n, sh),
                              NatCmp(NatLowBits(n, sh), NatShl(<<1>>, sh - 1)),
                              e + sh)
             Sized(len) == Shifted(len, Max(len - F64Prec, F64MinExp - e))
         IN  Sized(NatBitLen(n))

\* `n as f64` for an unsigned integer n.
F64FromNat(n) == F64Round(0, n, 0)

F64Neg(a) == IF a.k = "nan" THEN a ELSE [a EXCEPT !.s = 1 - a.s]

\* The sum of two finite, non-zero values, exact before the one rounding.  An
\* addend more than 55 binary places below the other only decides the rounding,
\* and is replaced by one unit two places below the other's last place.
F64AddFin(a, b) ==
    LET hi == IF a.e >= b.e THEN a ELSE b
        lo == IF a.e >= b.e THEN b ELSE a
        d  == hi.e - lo.e
        far == d > F64Prec + 2
        e0 == IF far THEN hi.e - 2 ELSE lo.e
        B  == IF far THEN <<1>> ELSE lo.m
        Difference(A, c) ==
            IF c = 0 THEN F64Zero(0)
            ELSE F64Round(IF c > 0 THEN hi.s ELSE lo.s,
                          IF c > 0 THEN NatSub(A, B) ELSE NatSub(B, A), e0)
        Sum(A) ==
            IF hi.s = lo.s THEN F64Round(hi.s, NatAdd(A, B), e0)
            ELSE Difference(A, NatCmp(A, B))
    IN  Sum(NatShl(hi.m, IF far THEN 2 ELSE d))

\* a + b
F64Add(a, b) ==
    IF a.k = "nan" \/ b.k = "nan" THEN F64NaN
    ELSE IF a.k = "inf" /\ b.k = "inf" THEN (IF a.s = b.s THEN a ELSE F64NaN)
    ELSE IF a.k = "inf" THEN a
    ELSE IF b.k = "inf" THEN b
    ELSE IF a.m = << >> /\ b.m = << >> THEN F64Zero(IF a.s = 1 /\ b.s = 1 THEN 1 ELSE 0)
    ELSE IF a.m = << >> THEN b
    ELSE IF b.m = << >> THEN a
    ELSE F64AddFin(a, b)

\* a * b
F64Mul(a, b) ==
    IF a.k = "nan" \/ b.k = "nan" THEN F64NaN
    ELSE IF a.k = "inf" \/ b.k = "inf"
         THEN (IF F64IsZero(a) \/ F64IsZero(b) THEN F64NaN
               ELSE F64Inf(SignXor(a.s, b.s)))
    ELSE F64Round(SignXor(a.s, b.s), NatMul(a.m, b.m), a.e + b.e)

\* The quotient of two finite, non-zero values: the integer quotient of the
\* mantissas to at least 55 bits, with one more bit that says whether a
\* remainder was left, so that the one rounding sees the exact quotient.
F64DivFin(a, b) ==
    LET Sticky(qr, k) ==
            F64Round(SignXor(a.s, b.s),
                     NatAdd(NatMulSmall(qr[1], 2), IF qr[2] = << >> THEN << >> ELSE <<1>>),
                     a.e - b.e - k - 1)
        Quotient(k) == Sticky(NatDivMod(NatShl(a.m, k), b.m), k)
    IN  Quotient(Max(0, F64Prec + 2 + NatBitLen(b.m) - NatBitLen(a.m)))

\* a / b
F64Div(a, b) ==
    IF a.k = "nan" \/ b.k = "nan" THEN F64NaN
    ELSE IF a.k = "inf" THEN (IF b.k = "inf" THEN F64NaN ELSE F64Inf(SignXor(a.s, b.s)))
    ELSE IF b.k = "inf" THEN F64Zero(SignXor(a.s, b.s))
    ELSE IF b.m = << >> THEN (IF a.m = << >> THEN F64NaN ELSE F64Inf(SignXor(a.s, b.s)))
    ELSE IF a.m = << >> THEN F64Zero(SignXor(a.s, b.s))
    ELSE F64DivFin(a, b)

\* -1, 0 or 1 as |a| < |b|, |a| = |b| or |a| > |b|, for finite a and b.
F64CmpMag(a, b) ==
    LET e0 == Min(a.e, b.e)
        Tops(ta, tb) ==
            IF ta < tb THEN -1
            ELSE IF ta > tb THEN 1
            ELSE NatCmp(NatShl(a.m, a.e - e0), NatShl(b.m, b.e - e0))
    IN  IF a.m = << >> /\ b.m = << >> THEN 0
        ELSE IF a.m = << >> THEN -1
        ELSE IF b.m = << >> THEN 1
        ELSE Tops(a.e + NatBitLen(a.m), b.e + NatBitLen(b.m))

\* -1, 0 or 1 as a < b, a = b or a > b, for a and b that are not NaN.
F64Cmp(a, b) ==
    IF a.k = "inf" /\ b.k = "inf" THEN (IF a.s = b.s THEN 0 ELSE IF a.s = 1 THEN -1 ELSE 1)
    ELSE IF a.k = "inf" THEN (IF a.s = 1 THEN -1 ELSE 1)
    ELSE IF b.k = "inf" THEN (IF b.s = 1 THEN 1 ELSE -1)
    ELSE IF a.m = << >> /\ b.m = << >> THEN 0
    ELSE IF a.s # b.s
         THEN (IF a.m = << >> THEN (IF b.s = 1 THEN 1 ELSE -1)
               ELSE IF a.s = 1 THEN -1 ELSE 1)
    ELSE IF a.s = 0 THEN F64CmpMag(a, b)
    ELSE -F64CmpMag(a, b)

\* The comparisons of the program: each is false when an operand is NaN.
F64Lt(a, b) == a.k # "nan" /\ b.k # "nan" /\ F64Cmp(a, b) < 0
F64Gt(a, b) == a.k # "nan" /\ b.k # "nan" /\ F64Cmp(a, b) > 0
F64Le(a, b) == a.k # "nan" /\ b.k # "nan" /\ F64Cmp(a, b) <= 0
F64Ge(a, b) == a.k # "nan" /\ b.k # "nan" /\ F64Cmp(a, b) >= 0
F64Eq(a, b) == a.k # "nan" /\ b.k # "nan" /\ F64Cmp(a, b) = 0

\* The f64 a decimal literal n / 10^d of the source denotes (n < 2^53, d <= 22:
\* both are exact and the one division rounds correctly).
F64Dec(n, d) == F64Div(F64FromNat(NatOfInt(n)), F64FromNat(NatPow(Ten, d)))

----------------------------------------------------------------------------
(* Arithmetic of the build.  With overflow checks (the dev profile) an      *)
(* unsigned addition or multiplication that leaves its width panics;        *)
(* without them (the release profile) it wraps.  A panic ends the call: it  *)
(* is the only result that is not a value.                                  *)

U8Bits == 8
U64Bits == 64
U128Bits == 128
U256Bits == 256

Ok(v) == [panic |-> FALSE, v |-> v]
Panicked(v) == [panic |-> TRUE, v |-> v]

----------------------------------------------------------------------------
(* risk.rs: severities, categories, findings and the score.                *)

RiskSeverity == {"Low", "Medium", "High", "Critical"}
RiskCategory == {"HighUtilization", "PriceVolatility", "Concentration",
                 "LiquidationCascade", "OracleReliability", "SmartContractRisk"}

\* A RiskFinding without its description, a text formatted from the values
\* that metadata holds.
RiskFinding(category, severity, metadata, timestamp) ==
    [category |-> category, severity |-> severity, metadata |-> metadata,
     timestamp |-> timestamp]

\* The match of calculate_risk_score with every weight one arm too low.
SeverityWeightLowered(severity) ==
    CASE severity = "Low" -> 0
      [] severity = "Medium" -> 5
      [] severity = "High" -> 15
      [] severity = "Critical" -> 30

\* The match of calculate_risk_score.
SeverityWeight(severity) ==
    CASE severity = "Low" -> 5
      [] severity = "Medium" -> 15
      [] severity = "High" -> 30
      [] severity = "Critical" -> 50

\* Iterator::sum::<u8>(): the weights are added from the left in 8 bits.
RECURSIVE SumU8(_, _, _, _)
SumU8(findings, i, acc, checks) ==
    IF i > Len(findings) THEN Ok(acc)
    ELSE LET t == acc + SeverityWeight(findings[i].severity)
         IN  IF t >= 2 ^ U8Bits
             THEN (IF checks THEN Panicked(0)
                   ELSE SumU8(findings, i + 1, t % (2 ^ U8Bits), checks))
             ELSE SumU8(findings, i + 1, t, checks)

ScoreCap == 100

\* calculate_risk_score without the cap at 100.
calculate_risk_score_uncapped(findings, checks) ==
    IF findings = << >> THEN Ok(0) ELSE SumU8(findings, 1, 0, checks)

\* calculate_risk_score that looks at the first finding only.
calculate_risk_score_of_first(findings, checks) ==
    IF findings = << >> THEN Ok(0)
    ELSE Ok(Min(SeverityWeight(findings[1].severity), ScoreCap))

calculate_risk_score(findings, checks) ==
    IF findings = << >> THEN Ok(0)
    ELSE LET base_score == SumU8(findings, 1, 0, checks)
         IN  IF base_score.panic THEN base_score
             ELSE Ok(Min(base_score.v, ScoreCap))

----------------------------------------------------------------------------
(* config.rs: the risk parameters, and risk.rs: the rule checks.           *)

RiskConfig(threshold, buffer, volatility) ==
    [max_utilization_threshold |-> threshold,
     liquidation_threshold_buffer |-> buffer,
     max_price_volatility |-> volatility]

\* The f64 literals of risk.rs.
F64One == F64FromNat(<<1>>)
F64Two == F64FromNat(<<2>>)
F64Tenth == F64Dec(1, 1)
F64Twentieth == F64Dec(5, 2)

\* Config::default().risk
DefaultRiskConfig == RiskConfig(F64Dec(85, 2), F64Twentieth, F64Tenth)

\* UtilizationSeverity with the branches of Critical and Medium exchanged.
UtilizationSeverityExchanged(utilization, threshold) ==
    IF F64Gt(utilization, F64Add(threshold, F64Tenth)) THEN "Medium"
    ELSE IF F64Gt(utilization, F64Add(threshold, F64Twentieth)) THEN "High"
    ELSE "Critical"

\* UtilizationSeverity with inclusive comparisons.
UtilizationSeverityInclusive(utilization, threshold) ==
    IF F64Ge(utilization, F64Add(threshold, F64Tenth)) THEN "Critical"
    ELSE IF F64Ge(utilization, F64Add(threshold, F64Twentieth)) THEN "High"
    ELSE "Medium"

\* if utilization > threshold + 0.1 .. else if utilization > threshold + 0.05 ..
UtilizationSeverity(utilization, threshold) ==
    IF F64Gt(utilization, F64Add(threshold, F64Tenth)) THEN "Critical"
    ELSE IF F64Gt(utilization, F64Add(threshold, F64Twentieth)) THEN "High"
    ELSE "Medium"

\* The findings after check_utilization has run on them.
check_utilization(market, findings, timestamp, config) ==
    LET utilization == market.utilization_rate
        threshold   == config.max_utilization_threshold
    IN  IF F64Gt(utilization, threshold)
        THEN Append(findings,
                    RiskFinding("HighUtilization",
                                UtilizationSeverity(utilization, threshold),
                                [current_utilization |-> utilization,
                                 threshold |-> threshold,
                                 base_asset |-> market.base_asset.symbol,
                                 total_supply |-> market.total_supply,
                                 total_borrow |-> market.total_borrow],
                                timestamp))
        ELSE findings

\* RiskProcessor::assess_market: the RiskAssessment, or the panic of the score.
assess_market(market, now_, config, checks) ==
    LET found == check_utilization(market, << >>, now_, config)
        risk_score_ == calculate_risk_score(found, checks)
    IN  IF risk_score_.panic THEN Panicked(<< >>)
        ELSE Ok([market_name |-> market.name,
                 market_address |-> market.comet_address,
                 findings |-> found,
                 risk_score |-> risk_score_.v,
                 timestamp |-> now_])

\* The findings simulate_market_conditions returns.
simulate_market_conditions(market, now_, config) ==
    LET simulated_utilization == F64Add(market.utilization_rate, F64Tenth)
    IN  IF F64Gt(simulated_utilization, config.max_utilization_threshold)
        THEN << RiskFinding("HighUtilization", "Medium",
                            [simulated_utilization |-> simulated_utilization,
                             current_utilization |-> market.utilization_rate,
                             threshold |-> config.max_utilization_threshold],
                            now_) >>
        ELSE << >>

\* LiquidationSeverity with the whole buffer where the code halves it.
LiquidationSeverityWholeBuffer(health_factor, buffer) ==
    IF F64Lt(health_factor, F64One) THEN "Critical"
    ELSE IF F64Lt(health_factor, F64Add(F64One, buffer)) THEN "High"
    ELSE "Medium"

\* if health_factor < 1.0 .. else if health_factor < 1.0 + (buffer / 2.0) ..
LiquidationSeverity(health_factor, buffer) ==
    IF F64Lt(health_factor, F64One) THEN "Critical"
    ELSE IF F64Lt(health_factor, F64Add(F64One, F64Div(buffer, F64Two))) THEN "High"
    ELSE "Medium"

\* Option<RiskFinding> as a sequence: None is << >>, Some(f) is <<f>>.
check_user_liquidation_risk(user, config, now_) ==
    IF F64Le(user.total_borrow_value, F64Zero(0)) THEN << >>
    ELSE LET buffer == config.liquidation_threshold_buffer
         IN  IF F64Lt(user.health_factor, F64Add(F64One, buffer))
             THEN << RiskFinding("LiquidationCascade",
                                 LiquidationSeverity(user.health_factor, buffer),
                                 [health_factor |-> user.health_factor,
                                  buffer |-> buffer,
                                  collateral_value |-> user.total_collateral_value,
                                  borrow_value |-> user.total_borrow_value],
                                 now_) >>
             ELSE << >>

----------------------------------------------------------------------------
(* utils.rs and compound.rs: the fixed-point conversion.                   *)

\* u64 multiplication: panics with overflow checks, wraps without.
U64Mul(a, b, checks) ==
    LET Product(p) ==
            IF NatBitLen(p) > U64Bits
            THEN (IF checks THEN Panicked(<< >>) ELSE Ok(NatLowBits(p, U64Bits)))
            ELSE Ok(p)
    IN  Product(NatMul(a, b))

\* The loop of u64::pow: while exp > 1 { if exp is odd { acc = acc * base }
\* exp /= 2; base = base * base } acc * base
RECURSIVE U64PowLoop(_, _, _, _)
U64PowLoop(base, acc, exp, checks) ==
    IF exp <= 1 THEN U64Mul(acc, base, checks)
    ELSE LET Turn(acc2, base2) ==
                 IF acc2.panic \/ base2.panic THEN Panicked(<< >>)
                 ELSE U64PowLoop(base2.v, acc2.v, exp \div 2, checks)
         IN  Turn(IF exp % 2 = 1 THEN U64Mul(acc, base, checks) ELSE Ok(acc),
                  U64Mul(base, base, checks))

\* 10u64.pow(decimals as u32)
U64Pow10(decimals, checks) ==
    IF decimals = 0 THEN Ok(<<1>>) ELSE U64PowLoop(Ten, <<1>>, decimals, checks)

\* U256::as_u128(): panics when the value does not fit 128 bits.
as_u128(value) ==
    IF NatBitLen(value) > U128Bits THEN Panicked(<< >>) ELSE Ok(value)

\* u256_to_f64 of utils.rs and of compound.rs (the same body twice).
u256_to_f64(value, decimals, checks) ==
    LET Divided(factor, value_u128) ==
            IF factor.panic \/ value_u128.panic THEN Panicked(F64NaN)
            ELSE Ok(F64Div(F64FromNat(value_u128.v), F64FromNat(factor.v)))
    IN  Divided(U64Pow10(decimals, checks), as_u128(value))

\* f64::round: the nearest integer, a half rounded away from zero; the sign
\* is kept (a value in (-0.5, 0) gives -0.0), NaN and the infinities are
\* returned as they are.
F64RoundHalfAway(a) ==
    IF a.k # "fin" \/ a.m = << >> \/ a.e >= 0 THEN a
    ELSE LET Whole(q, up) == F64Round(a.s, IF up THEN NatAdd(q, <<1>>) ELSE q, 0)
         IN  Whole(NatShr(a.m, -a.e), NatBit(a.m, -a.e - 1) = 1)

\* `a as u128`: the cast saturates.  NaN and every value below 1, the negative
\* ones included, give 0 or the integer part; a value of 2^128 or more gives
\* u128::MAX.
F64AsU128(a) ==
    IF a.k = "nan" THEN << >>
    ELSE IF a.s = 1 THEN << >>
    ELSE IF a.k = "inf" THEN NatSub(NatShl(<<1>>, U128Bits), <<1>>)
    ELSE IF a.m = << >> THEN << >>
    ELSE IF a.e + NatBitLen(a.m) > U128Bits THEN NatSub(NatShl(<<1>>, U128Bits), <<1>>)
    ELSE IF a.e >= 0 THEN NatShl(a.m, a.e)
    ELSE NatShr(a.m, -a.e)

\* f64::abs
F64Abs(a) == IF a.k = "nan" THEN a ELSE [a EXCEPT !.s = 0]

\* f64_to_u256 without the multiplication by the power of ten.
f64_to_u256_unscaled(value, decimals, checks) ==
    LET Multiplied(decimals_factor) ==
            IF decimals_factor.panic THEN Panicked(<< >>)
            ELSE Ok(F64AsU128(F64RoundHalfAway(value)))
    IN  Multiplied(U64Pow10(decimals, checks))

\* f64_to_u256 of utils.rs: the result is a U256, there is no error to return.
f64_to_u256(value, decimals, checks) ==
    LET Multiplied(decimals_factor) ==
            IF decimals_factor.panic THEN Panicked(<< >>)
            ELSE Ok(F64AsU128(F64RoundHalfAway(
                        F64Mul(value, F64FromNat(decimals_factor.v)))))
    IN  Multiplied(U64Pow10(decimals, checks))

----------------------------------------------------------------------------
(* State.                                                                   *)

VARIABLES
    overflow_checks,  \* the build: TRUE with integer overflow checks (dev profile)
    now,              \* the clock Utc::now() reads, in seconds
    findings,         \* a Vec<RiskFinding>: the argument of the rule checks and of the score
    risk_score,       \* << >>, or <<r>> with r the outcome of calculate_risk_score(findings)
    config,           \* Config.risk of the RiskProcessor
    market,           \* << >>, or <<m>> with m the Market handed to the RiskProcessor
    user,             \* << >>, or <<u>> with u the UserPosition handed to it
    last_op,          \* the last RiskProcessor call: its name, its arguments and what it returned
    conv_in,          \* the arguments of a conversion: a raw value and the decimals
    conv_out,         \* << >>, or <<r>> with r the outcome of the conversion of conv_in
    ledger,           \* the chain: what the contracts answer to a read
    pc,               \* where the CompoundClient call in progress stands: the read it issues next
    loc,              \* the local variables of the call in progress
    reads,            \* the reads the call in progress, or the last call, has issued
    ret,              \* what the last call returned, and what was held when it returned
    held,             \* << >>, or <<h>> with h the Vec<Market> the last get_markets that
                      \* succeeded returned and the time it returned
    calls,            \* the callers of the one RiskEngine: where each assess_risks call
                      \* stands, what it returned and what its command printed
    lock,             \* the RwLock around the CompoundClient: who holds which side
    running           \* the caller whose get_markets is in pc, loc, reads and ret; 0 if none

buildVars == <<overflow_checks>>
scoreVars == <<findings, risk_score>>
riskVars == <<config, market, user, last_op>>
convVars == <<conv_in, conv_out>>
clientVars == <<ledger, pc, loc, reads, ret, held>>
engineVars == <<calls, lock, running>>
vars == <<overflow_checks, now, findings, risk_score, config, market, user, last_op,
          conv_in, conv_out, ledger, pc, loc, reads, ret, held, calls, lock, running>>

NoOp == [name |-> "none"]

----------------------------------------------------------------------------
(* Bounds of the model.                                                     *)

MaxFindings == 6
MaxTime == 2
MaxPercent == 120

----------------------------------------------------------------------------
(* The score: calculate_risk_score applied to every sequence of findings    *)
(* of at most MaxFindings findings.                                         *)

\* The findings of tests::test_calculate_risk_score carry the categories
\* HighUtilization and LiquidationCascade in turn and an empty metadata object.
TestFinding(i, severity) ==
    RiskFinding(IF i % 2 = 1 THEN "HighUtilization" ELSE "LiquidationCascade",
                severity, << >>, 0)

\* The findings with the severities sev, a sequence of severities.
TestFindings(sev) == [i \in 1..Len(sev) |-> TestFinding(i, sev[i])]

RiskIdle ==
    /\ config = DefaultRiskConfig
    /\ market = << >>
    /\ user = << >>
    /\ last_op = NoOp

ConvIdle ==
    /\ conv_in = << >>
    /\ conv_out = << >>

NoLedger == [block |-> 0]
NoRet == [op |-> "none"]

\* No caller has called the engine; nobody holds the lock.
NoLock == [readers |-> {}, writer |-> 0]

EngineIdle ==
    /\ calls = << >>
    /\ lock = NoLock
    /\ running = 0

ClientIdle ==
    /\ ledger = NoLedger
    /\ pc = "idle"
    /\ loc = << >>
    /\ reads = << >>
    /\ ret = NoRet
    /\ held = << >>

InitScore ==
    /\ overflow_checks \in BOOLEAN
    /\ now = 0
    /\ \E n \in 0..MaxFindings : \E sev \in [1..n -> RiskSeverity] :
            findings = TestFindings(sev)
    /\ risk_score = << >>
    /\ RiskIdle
    /\ ConvIdle
    /\ ClientIdle
    /\ EngineIdle

CalculateRiskScore ==
    /\ risk_score = << >>
    /\ risk_score' = << calculate_risk_score(findings, overflow_checks) >>
    /\ UNCHANGED <<engineVars, overflow_checks, now, findings, riskVars, convVars, clientVars>>

NextScore == CalculateRiskScore

SpecScore == InitScore /\ [][NextScore]_vars

\* The sum of the weights as an integer of unbounded width.
RECURSIVE WeightSum(_)
WeightSum(fs) ==
    IF fs = << >> THEN 0 ELSE SeverityWeight(Head(fs).severity) + WeightSum(Tail(fs))

Scored == risk_score # << >>

\* C1: for every sequence of findings calculate_risk_score returns
\* min(100, sum of the weights): [High, Medium] gives 45, and a sequence whose
\* weights sum to 100 or more gives 100.
C1_ScoreIsCappedSum ==
    Scored => /\ ~risk_score[1].panic
              /\ risk_score[1].v = Min(100, WeightSum(findings))

\* C6: every score calculate_risk_score returns is at least 0 and at most 100.
C6_ScoreBounded ==
    (Scored /\ ~risk_score[1].panic) => (0 <= risk_score[1].v /\ risk_score[1].v <= 100)

\* A score was returned for findings whose weights do not fit 8 bits.
C6_Witness ==
    Scored /\ ~risk_score[1].panic /\ WeightSum(findings) >= 2 ^ U8Bits

\* The findings rearranged by increasing weight: a permutation of the
\* findings that is the same for every arrangement of the same severities.
Lighter(f, g) == SeverityWeight(f.severity) < SeverityWeight(g.severity)

BySeverity(fs) == SortSeq(fs, Lighter)

----------------------------------------------------------------------------
(* The rule checks: check_utilization, assess_market,                       *)
(* simulate_market_conditions and check_user_liquidation_risk applied to    *)
(* markets and positions around the thresholds.                             *)

\* The f64 next above (j = 1) or next below (j = -1) a positive normal a.
F64Nudge(a, j) ==
    IF j = 0 THEN a
    ELSE IF j > 0
    THEN (LET m2 == NatAdd(a.m, <<1>>)
          IN  IF NatBitLen(m2) > F64Prec THEN F64Fin(a.s, NatShr(m2, 1), a.e + 1)
              ELSE F64Fin(a.s, m2, a.e))
    ELSE (LET m2 == NatSub(a.m, <<1>>)
          IN  IF NatBitLen(m2) < F64Prec
              THEN F64Fin(a.s, NatAdd(NatMulSmall(m2, 2), <<1>>), a.e - 1)
              ELSE F64Fin(a.s, m2, a.e))

\* create_test_market of the tests of risk.rs: USDC, no collateral asset.
TestBaseAsset ==
    [address |-> "usdc", symbol |-> "USDC", decimals |-> 6, price |-> F64One,
     asset_type |-> "Base", collateral_factor |-> F64Zero(0),
     liquidation_factor |-> F64Zero(0), liquidation_penalty |-> F64Zero(0),
     supply_cap |-> << >>, borrow_cap |-> << >>]

TestMarket(total_supply, total_borrow, utilization_rate) ==
    [name |-> "USDC", comet_address |-> "comet", base_asset |-> TestBaseAsset,
     collateral_assets |-> << >>,
     total_supply |-> total_supply, total_borrow |-> total_borrow,
     utilization_rate |-> utilization_rate,
     supply_apr |-> F64Dec(5, 2), borrow_apr |-> F64Dec(8, 2)]

TestSupply == F64FromNat(NatPow(Ten, 9))

\* A market that has lent p percent of a supply of 1,000,000,000.
PercentMarket(p) ==
    LET total_borrow == F64FromNat(NatMul(NatOfInt(p), NatPow(Ten, 7)))
    IN  TestMarket(TestSupply, total_borrow, F64Div(total_borrow, TestSupply))

\* max_utilization_threshold: the default 0.85 and two more.
TestThresholds == {F64Dec(85, 2), F64Dec(8, 1), F64Dec(5, 1)}

\* liquidation_threshold_buffer: the default 0.05 and two more.
TestBuffers == {F64Dec(5, 2), F64Zero(0), F64Dec(1, 1)}

\* The markets: every whole percentage of utilization, and the thresholds of
\* the check (T, T + 0.05, T + 0.1, and T - 0.1 for the simulation) with the
\* f64 next below and next above each.
TestMarkets(threshold) ==
    { PercentMarket(p) : p \in 0..MaxPercent }
    \cup { TestMarket(TestSupply, F64Zero(0), F64Nudge(edge, j)) :
             edge \in { threshold,
                        F64Add(threshold, F64Dec(5, 2)),
                        F64Add(threshold, F64Dec(1, 1)),
                        F64Add(threshold, F64Neg(F64Dec(1, 1))) },
             j \in {-1, 0, 1} }

TestPosition(total_borrow_value, health_factor) ==
    [address |-> "user", base_balance |-> F64Neg(total_borrow_value),
     collateral_balances |-> << >>,
     total_collateral_value |-> F64Mul(total_borrow_value, health_factor),
     total_borrow_value |-> total_borrow_value,
     health_factor |-> health_factor]

\* The positions: health factors 0.90, 0.91 .. 1.15, the sentinel 100, and
\* the thresholds of the check (1, 1 + B/2, 1 + B) with the f64 next below and
\* next above each; borrow values 0, -0, 1/100 and 1000.
TestPositions(buffer) ==
    { TestPosition(tbv, hf) :
        tbv \in { F64Zero(0), F64Zero(1), F64Dec(1, 2), F64FromNat(NatOfInt(1000)) },
        hf \in { F64Dec(p, 2) : p \in 90..115 }
               \cup { F64FromNat(NatOfInt(100)) }
               \cup { F64Nudge(edge, j) :
                        edge \in { F64One,
                                   F64Add(F64One, F64Div(buffer, F64Two)),
                                   F64Add(F64One, buffer) },
                        j \in {-1, 0, 1} } }

PriorFindings == { << >>, << TestFinding(1, "Low") >> }

\* A market with its threshold, or a position with its buffer.
InitRiskSubject ==
    \/ /\ \E t \in TestThresholds :
            /\ config = RiskConfig(t, F64Twentieth, F64Tenth)
            /\ market \in { <<m>> : m \in TestMarkets(t) }
       /\ user = << >>
    \/ /\ \E b \in TestBuffers :
            /\ config = RiskConfig(F64Dec(85, 2), b, F64Tenth)
            /\ user \in { <<u>> : u \in TestPositions(b) }
       /\ market = << >>

InitRisk ==
    /\ InitRiskSubject
    /\ overflow_checks \in BOOLEAN
    /\ now \in 0..MaxTime
    /\ findings \in PriorFindings
    /\ risk_score = << >>
    /\ last_op = NoOp
    /\ ConvIdle
    /\ ClientIdle
    /\ EngineIdle

CheckUtilization ==
    /\ market # << >>
    /\ last_op = NoOp
    /\ findings' = check_utilization(market[1], findings, now, config)
    /\ last_op' = [name |-> "check_utilization", before |-> findings]
    /\ UNCHANGED <<engineVars, overflow_checks, now, risk_score, config, market, user,
                   convVars, clientVars>>

AssessMarket ==
    /\ market # << >>
    /\ last_op = NoOp
    /\ last_op' = [name |-> "assess_market",
                   result |-> assess_market(market[1], now, config, overflow_checks)]
    /\ UNCHANGED <<engineVars, overflow_checks, now, scoreVars, config, market, user,
                   convVars, clientVars>>

SimulateMarketConditions ==
    /\ market # << >>
    /\ last_op = NoOp
    /\ last_op' = [name |-> "simulate_market_conditions",
                   result |-> simulate_market_conditions(market[1], now, config)]
    /\ UNCHANGED <<engineVars, overflow_checks, now, scoreVars, config, market, user,
                   convVars, clientVars>>

CheckUserLiquidationRisk ==
    /\ user # << >>
    /\ last_op = NoOp
    /\ last_op' = [name |-> "check_user_liquidation_risk",
                   result |-> check_user_liquidation_risk(user[1], config, now)]
    /\ UNCHANGED <<engineVars, overflow_checks, now, scoreVars, config, market, user,
                   convVars, clientVars>>

NextRisk ==
    \/ CheckUtilization
    \/ AssessMarket
    \/ SimulateMarketConditions
    \/ CheckUserLiquidationRisk

SpecRisk == InitRisk /\ [][NextRisk]_vars

----------------------------------------------------------------------------
(* A RiskProcessor that scores a list of findings, or assesses a market.    *)

InitAssess ==
    /\ overflow_checks \in BOOLEAN
    /\ now = 0
    /\ risk_score = << >>
    /\ config = DefaultRiskConfig
    /\ user = << >>
    /\ last_op = NoOp
    /\ ConvIdle
    /\ ClientIdle
    /\ EngineIdle
    /\ \/ /\ market = << >>
          /\ \E n \in 0..MaxFindings : \E sev \in [1..n -> RiskSeverity] :
                 findings = TestFindings(sev)
       \/ /\ findings = << >>
          /\ market \in { <<m>> : m \in TestMarkets(DefaultRiskConfig.max_utilization_threshold) }

NextAssess ==
    \/ CalculateRiskScore
    \/ AssessMarket

SpecAssess == InitAssess /\ [][NextAssess]_vars

MarketAssessed == last_op.name = "assess_market" /\ ~last_op.result.panic

\* C19: calculate_risk_score gives the same result for every arrangement of
\* the same findings: the result for the findings as given equals the result
\* for the findings rearranged by weight, which is one and the same sequence
\* of weights for all permutations, so any two permutations get equal
\* results; this includes findings whose weights exceed 255 in 8 bits, in
\* both builds. And the findings of the RiskAssessment that assess_market
\* returns are the findings of its rule checks in the order in which the
\* checks pushed them.
C19_ScoreIgnoresOrder ==
    /\ Scored =>
          risk_score[1] = calculate_risk_score(BySeverity(findings), overflow_checks)
    /\ MarketAssessed =>
          last_op.result.v.findings = check_utilization(market[1], << >>, now, config)

\* C19 happens: findings that are not in the order of their weights and
\* whose weights exceed 255 were scored without overflow checks.
C19_Witness ==
    /\ Scored
    /\ ~risk_score[1].panic
    /\ WeightSum(findings) >= 2 ^ U8Bits
    /\ [i \in 1..Len(findings) |-> findings[i].severity]
         # [i \in 1..Len(findings) |-> BySeverity(findings)[i].severity]

\* What the last call of check_utilization appended.
Appended == SubSeq(findings, Len(last_op.before) + 1, Len(findings))

UtilizationChecked == last_op.name = "check_utilization"

AssessmentMade == last_op.name = "assess_market" /\ ~last_op.result.panic

\* C24: every call of assess_market returns a RiskAssessment, which has at
\* most one finding; the finding, if there is one, is of category
\* HighUtilization and carries the timestamp of the assessment; and
\* risk_score is 0 without a finding and 15, 30 or 50 for a finding of
\* severity Medium, High or Critical, so that risk_score > 0 exactly when
\* there is a finding.
C24_AssessmentShape ==
    last_op.name = "assess_market" =>
        /\ ~last_op.result.panic
        /\ LET assessment == last_op.result.v
           IN  /\ Len(assessment.findings) <= 1
               /\ \A i \in 1..Len(assessment.findings) :
                     /\ assessment.findings[i].category = "HighUtilization"
                     /\ assessment.findings[i].timestamp = assessment.timestamp
               /\ assessment.risk_score =
                     ( IF assessment.findings = << >> THEN 0
                       ELSE CASE assessment.findings[1].severity = "Medium" -> 15
                              [] assessment.findings[1].severity = "High" -> 30
                              [] assessment.findings[1].severity = "Critical" -> 50 )
               /\ (assessment.risk_score > 0) <=> (assessment.findings # << >>)

\* C24 happens: at a time other than 0 a market was assessed with one
\* finding of severity Critical and the score 50.
C24_Witness ==
    /\ AssessmentMade
    /\ now > 0
    /\ Len(last_op.result.v.findings) = 1
    /\ last_op.result.v.findings[1].severity = "Critical"
    /\ last_op.result.v.findings[1].timestamp = now
    /\ last_op.result.v.risk_score = 50

\* C3: for the market with total_supply 1,000,000,000 and total_borrow
\* 900,000,000 (utilization_rate 0.90) and the default threshold 0.85,
\* check_utilization produces one finding, HighUtilization of severity High.
C3_TestMarketIsHigh ==
    ( /\ UtilizationChecked
      /\ last_op.before = << >>
      /\ config = DefaultRiskConfig
      /\ market[1] = TestMarket(F64FromNat(NatOfInt(1000000000)),
                                F64FromNat(NatOfInt(900000000)), F64Dec(9, 1)) )
    => /\ Len(findings) = 1
       /\ findings[1].category = "HighUtilization"
       /\ findings[1].severity = "High"

----------------------------------------------------------------------------
(* check_utilization on two markets: one RiskProcessor, one threshold, and  *)
(* every pair of the markets above.                                         *)

InitPair ==
    /\ \E t \in TestThresholds :
         /\ config = RiskConfig(t, F64Twentieth, F64Tenth)
         /\ market \in { <<m1, m2>> : m1 \in TestMarkets(t), m2 \in TestMarkets(t) }
    /\ user = << >>
    /\ overflow_checks \in BOOLEAN
    /\ now = 0
    /\ findings = << >>
    /\ risk_score = << >>
    /\ last_op = NoOp
    /\ ConvIdle
    /\ ClientIdle
    /\ EngineIdle

\* check_utilization(market, &mut findings, now), for each of the two markets
\* with a Vec of its own.
CheckUtilizationEach ==
    /\ Len(market) = 2
    /\ last_op = NoOp
    /\ last_op' = [name |-> "check_utilization_each",
                   results |-> [i \in 1..2 |->
                                   check_utilization(market[i], << >>, now, config)]]
    /\ UNCHANGED <<engineVars, overflow_checks, now, scoreVars, config, market, user,
                   convVars, clientVars>>

NextPair == CheckUtilizationEach

SpecPair == InitPair /\ [][NextPair]_vars

\* The category and the severity of each finding, in order.
Outline(found) == [i \in 1..Len(found) |-> <<found[i].category, found[i].severity>>]

\* The outcome of check_utilization on an empty Vec, in the order
\* no finding < Medium < High < Critical.
OutcomeRank(found) ==
    IF found = << >> THEN 0
    ELSE CASE found[Len(found)].severity = "Medium" -> 1
           [] found[Len(found)].severity = "High" -> 2
           [] found[Len(found)].severity = "Critical" -> 3

PairChecked == last_op.name = "check_utilization_each"

\* C18: the outcome of check_utilization depends on the market's
\* utilization_rate alone and never decreases when the utilization_rate
\* grows: of two markets checked under one configuration, the one with the
\* smaller or equal utilization_rate has the smaller or equal outcome (no
\* finding < Medium < High < Critical), and two markets with equal
\* utilization_rate, whatever their other fields, get the same outcome.
C18_UtilizationMonotone ==
    PairChecked =>
        /\ F64Le(market[1].utilization_rate, market[2].utilization_rate)
              => OutcomeRank(last_op.results[1]) <= OutcomeRank(last_op.results[2])
        /\ F64Eq(market[1].utilization_rate, market[2].utilization_rate)
              => Outline(last_op.results[1]) = Outline(last_op.results[2])

\* C18 happens: two markets that differ in total_borrow have the same
\* utilization_rate above the threshold, and so the same finding; and a
\* pair with a smaller and a larger utilization_rate gets Medium and Critical.
C18_Witness ==
    /\ PairChecked
    /\ \/ /\ market[1] # market[2]
          /\ F64Eq(market[1].utilization_rate, market[2].utilization_rate)
          /\ OutcomeRank(last_op.results[1]) >= 1
       \/ /\ F64Lt(market[1].utilization_rate, market[2].utilization_rate)
          /\ OutcomeRank(last_op.results[1]) = 1
          /\ OutcomeRank(last_op.results[2]) = 3

\* C13: simulate_market_conditions on a market with utilization_rate u and the
\* increase D (0.1, the one increase the code has) returns the findings, in
\* count, category and severity, that check_utilization returns for the same
\* market with utilization_rate u + D under the same threshold, and leaves the
\* market as it was.
C13_SimulationMatchesCheck ==
    [][ SimulateMarketConditions =>
          /\ market' = market
          /\ Outline(last_op'.result) =
               Outline(check_utilization(
                   [market[1] EXCEPT !.utilization_rate = F64Add(@, F64Tenth)],
                   << >>, now, config)) ]_vars

LiquidationChecked == last_op.name = "check_user_liquidation_risk"

\* C4: check_user_liquidation_risk with buffer B returns no finding when
\* total_borrow_value <= 0 or health_factor >= 1 + B; otherwise exactly one
\* LiquidationCascade finding, Critical when health_factor < 1, High when
\* 1 <= health_factor < 1 + B/2 and Medium when 1 + B/2 <= health_factor < 1 + B.
C4_CheckUserLiquidationRisk ==
    LiquidationChecked =>
        LET hf == user[1].health_factor
            B  == config.liquidation_threshold_buffer
            r  == last_op.result
            half == F64Add(F64One, F64Div(B, F64Two))
            full == F64Add(F64One, B)
        IN  IF F64Cmp(user[1].total_borrow_value, F64Zero(0)) <= 0 \/ F64Cmp(hf, full) >= 0
            THEN r = << >>
            ELSE /\ Len(r) = 1
                 /\ r[1].category = "LiquidationCascade"
                 /\ (F64Cmp(hf, F64One) < 0 => r[1].severity = "Critical")
                 /\ (F64Cmp(hf, F64One) >= 0 /\ F64Cmp(hf, half) < 0
                       => r[1].severity = "High")
                 /\ (F64Cmp(hf, half) >= 0 /\ F64Cmp(hf, full) < 0
                       => r[1].severity = "Medium")

\* check_user_liquidation_risk found a Medium risk at exactly 1 + B/2.
C4_Witness ==
    /\ LiquidationChecked
    /\ user[1].health_factor =
         F64Add(F64One, F64Div(config.liquidation_threshold_buffer, F64Two))
    /\ Len(last_op.result) = 1
    /\ last_op.result[1].severity = "Medium"

----------------------------------------------------------------------------
(* The conversion: u256_to_f64 applied to raw values of up to 256 bits and  *)
(* to every u8 number of decimals.                                          *)

Pow2(k) == NatShl(<<1>>, k)

\* n * 10^k
Scaled(n, k) == NatMul(NatOfInt(n), NatPow(Ten, k))

\* Raw values: 0, 1, 1000 USDC (6 decimals), 123.456 (6 decimals), one ETH
\* (18 decimals), and the last value and the first value beyond 53, 64 and
\* 128 bits, and the last of 256 bits.
TestRawValues ==
    { << >>, <<1>>, Scaled(1000, 6), Scaled(123456, 3), Scaled(1, 18),
      NatAdd(Pow2(F64Prec), <<1>>),
      NatSub(Pow2(U64Bits), <<1>>), Pow2(U64Bits),
      NatSub(Pow2(U128Bits), <<1>>), Pow2(U128Bits),
      NatSub(Pow2(U256Bits), <<1>>) }

U8Values == 0..(2 ^ U8Bits - 1)

InitConv ==
    /\ overflow_checks \in BOOLEAN
    /\ now = 0
    /\ findings = << >>
    /\ risk_score = << >>
    /\ RiskIdle
    /\ conv_in \in { [value |-> v, decimals |-> d] : v \in TestRawValues, d \in U8Values }
    /\ conv_out = << >>
    /\ ClientIdle
    /\ EngineIdle

U256ToF64 ==
    /\ conv_out = << >>
    /\ conv_out' = << u256_to_f64(conv_in.value, conv_in.decimals, overflow_checks) >>
    /\ UNCHANGED <<engineVars, overflow_checks, now, scoreVars, riskVars, conv_in, clientVars>>

NextConv == U256ToF64

SpecConv == InitConv /\ [][NextConv]_vars

Converted == conv_out # << >>

\* C10: u256_to_f64(value, decimals) returns value / 10^decimals for every raw
\* value of up to 256 bits and every decimals in 0..255: neither the power nor
\* the value is wrapped or truncated, and the call does not abort.
C10_ConversionDividesByPowerOfTen ==
    Converted =>
        /\ ~conv_out[1].panic
        /\ conv_out[1].v = F64Div(F64FromNat(conv_in.value),
                                  F64FromNat(NatPow(Ten, conv_in.decimals)))

----------------------------------------------------------------------------
(* The conversion back: f64_to_u256 applied to decimal values, and          *)
(* u256_to_f64 applied to what it returned, as tests::                      *)
(* test_u256_to_f64_and_back does with 123.456 and 6 decimals.              *)

MaxDecimals == 20

\* The f64 nearest to whole.frac, frac written with k digits.
TestDecimal(whole, frac, k) ==
    F64Div(F64FromNat(NatAdd(Scaled(whole, k), NatOfInt(frac))),
           F64FromNat(NatPow(Ten, k)))

\* Decimal values with the number of their fractional digits: 0, 1, 0.5, 2.5,
\* 0.285, 1.005, 123.456 (the value of the test), 0.000001, 2147.483647,
\* 999999999.999999, 10^9, 10^12 + 0.1 and 10^30.
TestDecimals ==
    { [value |-> TestDecimal(0, 0, 0), digits |-> 0],
      [value |-> TestDecimal(1, 0, 0), digits |-> 0],
      [value |-> TestDecimal(0, 5, 1), digits |-> 1],
      [value |-> TestDecimal(2, 5, 1), digits |-> 1],
      [value |-> TestDecimal(0, 285, 3), digits |-> 3],
      [value |-> TestDecimal(1, 5, 3), digits |-> 3],
      [value |-> TestDecimal(123, 456, 3), digits |-> 3],
      [value |-> TestDecimal(0, 1, 6), digits |-> 6],
      [value |-> TestDecimal(2147, 483647, 6), digits |-> 6],
      [value |-> TestDecimal(999999999, 999999, 6), digits |-> 6],
      [value |-> TestDecimal(1000000000, 0, 0), digits |-> 0],
      [value |-> F64Div(F64FromNat(NatAdd(Scaled(1, 13), <<1>>)), F64FromNat(Ten)),
       digits |-> 1],
      [value |-> F64FromNat(Scaled(1, 30)), digits |-> 0] }

InitBack ==
    /\ overflow_checks \in BOOLEAN
    /\ now = 0
    /\ findings = << >>
    /\ risk_score = << >>
    /\ RiskIdle
    /\ \E t \in TestDecimals, negative \in BOOLEAN, d \in 0..MaxDecimals :
         conv_in = [value |-> IF negative THEN F64Neg(t.value) ELSE t.value,
                    digits |-> t.digits, decimals |-> d]
    /\ conv_out = << >>
    /\ ClientIdle
    /\ EngineIdle

\* let u256_value = f64_to_u256(original, decimals)
F64ToU256 ==
    /\ conv_out = << >>
    /\ conv_out' = << f64_to_u256(conv_in.value, conv_in.decimals, overflow_checks) >>
    /\ UNCHANGED <<engineVars, overflow_checks, now, scoreVars, riskVars, conv_in, clientVars>>

\* let back_to_f64 = u256_to_f64(u256_value, decimals)
BackToF64 ==
    /\ Len(conv_out) = 1
    /\ ~conv_out[1].panic
    /\ conv_out' = Append(conv_out,
                          u256_to_f64(conv_out[1].v, conv_in.decimals, overflow_checks))
    /\ UNCHANGED <<engineVars, overflow_checks, now, scoreVars, riskVars, conv_in, clientVars>>

NextBack ==
    \/ F64ToU256
    \/ BackToF64

SpecBack == InitBack /\ [][NextBack]_vars

ConvertedBack == Len(conv_out) >= 1

\* The integer nearest to a * 10^d, a half rounded away from zero, for a finite
\* a >= 0: the product is taken exactly, not in f64.
NearestProduct(a, d) ==
    LET Halved(n) ==
            IF a.e >= 0 THEN NatShl(n, a.e)
            ELSE IF NatBit(n, -a.e - 1) = 1 THEN NatAdd(NatShr(n, -a.e), <<1>>)
            ELSE NatShr(n, -a.e)
    IN  Halved(NatMul(a.m, NatPow(Ten, d)))

\* C11: f64_to_u256(value, decimals) returns no integer when value is negative
\* (it fails with an error), and for value >= 0 it returns the integer nearest
\* to value x 10^decimals, a half rounded away from zero.
C11_NegativeIsDomainError ==
    ConvertedBack =>
        /\ F64Lt(conv_in.value, F64Zero(0)) => conv_out[1].panic
        /\ F64Ge(conv_in.value, F64Zero(0)) =>
             /\ ~conv_out[1].panic
             /\ conv_out[1].v = NearestProduct(conv_in.value, conv_in.decimals)

RoundTripped == Len(conv_out) = 2

\* assert!((original - back_to_f64).abs() < 0.000001)
RoundTripClose(original, back_to_f64) ==
    F64Lt(F64Abs(F64Add(original, F64Neg(back_to_f64))), F64Dec(1, 6))

\* The largest value of the amended round trip: 10^9.
RoundTripLimit == F64FromNat(Scaled(1, 9))

\* C12 as stated: for every d in 0..18 and every v >= 0 with at most 6
\* fractional digits, u256_to_f64(f64_to_u256(v, d), d) is less than 1e-6
\* away from v, also when d is smaller than the number of fractional digits.
C12_RoundTripAnyDecimals ==
    (RoundTripped /\ conv_in.decimals <= 18 /\ F64Ge(conv_in.value, F64Zero(0))) =>
        /\ ~conv_out[2].panic
        /\ RoundTripClose(conv_in.value, conv_out[2].v)

\* C12 amended: for every d in 0..18 and every v in 0..10^9 with at most 6
\* fractional digits, none of them beyond the d-th, the round trip
\* u256_to_f64(f64_to_u256(v, d), d) is less than 1e-6 away from v.
C12_RoundTripEnoughDecimals ==
    (/\ RoundTripped
     /\ conv_in.decimals <= 18
     /\ conv_in.digits <= conv_in.decimals
     /\ F64Ge(conv_in.value, F64Zero(0))
     /\ F64Le(conv_in.value, RoundTripLimit)) =>
        /\ ~conv_out[2].panic
        /\ RoundTripClose(conv_in.value, conv_out[2].v)

\* The round trip of the test: 123.456 with 6 decimals goes through the raw
\* value 123456000 and comes back within 1e-6.
C12_Witness ==
    /\ RoundTripped
    /\ conv_in.value = TestDecimal(123, 456, 3)
    /\ conv_in.decimals = 6
    /\ conv_out[1].v = Scaled(123456, 3)
    /\ RoundTripClose(conv_in.value, conv_out[2].v)

----------------------------------------------------------------------------
(* The ledger: what the Comet contract and the ERC20 contracts answer.  An  *)
(* address is a string; a raw value is a natural number of up to 256 bits.  *)

\* The tuple getAssetInfo(i) returns.
AssetInfo(asset, decimals, borrow_cf, liquidate_cf, liquidation_factor, supply_cap) ==
    [asset |-> asset, decimals |-> decimals, borrowCollateralFactor |-> borrow_cf,
     liquidateCollateralFactor |-> liquidate_cf,
     liquidationFactor |-> liquidation_factor, supplyCap |-> supply_cap]

WethInfo == AssetInfo("weth", 18, Scaled(8, 17), Scaled(825, 15), Scaled(95, 16),
                      Scaled(1, 24))
WbtcInfo == AssetInfo("wbtc", 8, Scaled(7, 17), Scaled(77, 16), Scaled(95, 16),
                      Scaled(1, 13))

\* Prices with 8 decimals: USDC 1, WETH 2000, WBTC 30000.
TestPrices == [usdc |-> Scaled(1, 8), weth |-> Scaled(2000, 8), wbtc |-> Scaled(30000, 8)]

TestSymbols == [usdc |-> "USDC", weth |-> "WETH", wbtc |-> "WBTC"]

\* A market that has lent 900,000,000 of 1,000,000,000 USDC against WETH and
\* WBTC, and an account that has borrowed 1000 USDC against one WETH.
LedgerBorrower ==
    [block |-> 0, baseToken |-> "usdc", symbol |-> TestSymbols, decimals |-> 6,
     price |-> TestPrices,
     totalSupply |-> Scaled(1, 15), totalBorrow |-> Scaled(9, 14),
     supplyRate |-> Scaled(1, 9), borrowRate |-> Scaled(15, 8),
     assets |-> <<WethInfo, WbtcInfo>>,
     balanceOf |-> << >>, borrowBalanceOf |-> Scaled(1000, 6),
     collateralBalanceOf |-> [weth |-> Scaled(1, 18), wbtc |-> << >>]]

\* The same market; the account has supplied 500 USDC and two WETH and has
\* borrowed nothing.
LedgerSupplier ==
    [LedgerBorrower EXCEPT !.assets = <<WethInfo>>,
                           !.balanceOf = Scaled(500, 6), !.borrowBalanceOf = << >>,
                           !.collateralBalanceOf = [weth |-> Scaled(2, 18), wbtc |-> << >>]]

\* The account answers with a supply balance and with a borrow balance, and
\* has borrowed 3000 USDC against one WETH and 0.05 WBTC.
LedgerUnderwater ==
    [LedgerBorrower EXCEPT !.balanceOf = Scaled(5, 6), !.borrowBalanceOf = Scaled(3000, 6),
                           !.collateralBalanceOf = [weth |-> Scaled(1, 18),
                                                    wbtc |-> Scaled(5, 6)]]

\* A market nobody has supplied to, without collateral assets.
LedgerEmpty ==
    [LedgerBorrower EXCEPT !.totalSupply = << >>, !.totalBorrow = << >>,
                           !.assets = << >>,
                           !.balanceOf = << >>, !.borrowBalanceOf = << >>]

\* A base token of 20 decimals.
LedgerWide ==
    [LedgerBorrower EXCEPT !.decimals = 20, !.assets = << >>,
                           !.totalSupply = Scaled(1, 29), !.totalBorrow = Scaled(9, 28),
                           !.borrowBalanceOf = Scaled(1000, 20)]

\* Answers at the ends of their ranges: the base token is priced 0, and the
\* three factors of WETH (uint64 in getAssetInfo) are 2^64 - 1; the account
\* holds the smallest unit of WETH.
LedgerExtreme ==
    [LedgerUnderwater EXCEPT
        !.price = [@ EXCEPT !.usdc = << >>],
        !.assets = << AssetInfo("weth", 18, NatSub(Pow2(U64Bits), <<1>>),
                                NatSub(Pow2(U64Bits), <<1>>),
                                NatSub(Pow2(U64Bits), <<1>>), Scaled(1, 24)) >>,
        !.collateralBalanceOf = [weth |-> <<1>>, wbtc |-> << >>]]

TestLedgers ==
    {LedgerBorrower, LedgerSupplier, LedgerUnderwater, LedgerEmpty, LedgerWide, LedgerExtreme}

\* The next block: interest accrues on what is borrowed (one part in 1000)
\* and the price of WETH falls by a twentieth.
NextBlock(l) ==
    [l EXCEPT !.block = @ + 1,
              !.totalBorrow = NatAdd(@, NatDivSmall(@, 1000)),
              !.borrowBalanceOf = NatAdd(@, NatDivSmall(@, 1000)),
              !.price = [@ EXCEPT !.weth = NatSub(@, NatDivSmall(@, 20))]]

MaxBlock == 1

----------------------------------------------------------------------------
(* models.rs: Asset, Market and UserPosition, as compound.rs builds them.   *)

\* HashMap::insert
MapInsert(m, k, v) == [x \in (DOMAIN m) \cup {k} |-> IF x = k THEN v ELSE m[x]]

EmptyMap == [x \in {} |-> 0]

\* The orders in which a HashMap with the keys S can be iterated.
Orders(S) == { o \in [1..Cardinality(S) -> S] : \A i, j \in DOMAIN o : o[i] = o[j] => i = j }

U256Zero == << >>

F64Hundred == F64FromNat(<<100>>)

\* const SECONDS_PER_YEAR: f64 = 60.0 * 60.0 * 24.0 * 365.0
SECONDS_PER_YEAR ==
    F64Mul(F64Mul(F64Mul(F64FromNat(<<60>>), F64FromNat(<<60>>)), F64FromNat(<<24>>)),
           F64FromNat(<<365>>))

\* Price scale is 8 decimals in Compound; the rates and the factors have 18.
PriceDecimals == 8
FactorDecimals == 18

----------------------------------------------------------------------------
(* compound.rs: CompoundClient.  A call advances from one ledger read to    *)
(* the next: a step is a read and the code between it and the next read.    *)
(* CompoundClient has the fields provider, config and comet_contract, and   *)
(* get_erc20_contract parses the same fixed ABI text the constructor parsed *)
(* and reads nothing: what a call knows is its locals.                      *)

\* A record with the fields of r and those of s, s over r.
With(r, s) == s @@ r

\* What the code after a read comes to: the next read, a return, or a panic.
Continue(pc_, loc_) == [kind |-> "continue", pc |-> pc_, loc |-> loc_]
Return(value) == [kind |-> "return", value |-> value]
Unwind == [kind |-> "panic"]

\* How the call in progress ends.
Outcome(status) ==
    [op |-> loc.op, args |-> loc.args, status |-> status, prev |-> held]

\* ReadStep where a read that failed is issued again.
ReadStepRetry(fn, arg, answer, ok, out) ==
    /\ reads' = Append(reads, [fn |-> fn, arg |-> arg, ok |-> ok,
                               value |-> IF ok THEN answer ELSE << >>])
    /\ IF ~ok
       THEN UNCHANGED <<pc, loc, ret, held>>
       ELSE IF out.kind = "continue"
       THEN /\ pc' = out.pc
            /\ loc' = out.loc
            /\ UNCHANGED <<ret, held>>
       ELSE /\ pc' = "idle"
            /\ loc' = << >>
            /\ IF out.kind = "panic"
               THEN /\ ret' = Outcome("panic")
                    /\ held' = held
               ELSE /\ ret' = With(Outcome("ok"), [value |-> out.value])
                    /\ held' = IF loc.op = "get_markets"
                               THEN << [markets |-> out.value, time |-> now] >>
                               ELSE held
    /\ UNCHANGED <<engineVars, overflow_checks, now, scoreVars, riskVars, convVars, ledger>>

\* contract.method(fn, arg)?.call().await? and the code up to the next read:
\* an Err leaves the function at the ?, with nothing but the error.
ReadStep(fn, arg, answer, ok, out) ==
    /\ reads' = Append(reads, [fn |-> fn, arg |-> arg, ok |-> ok,
                               value |-> IF ok THEN answer ELSE << >>])
    /\ IF ok /\ out.kind = "continue"
       THEN /\ pc' = out.pc
            /\ loc' = out.loc
            /\ UNCHANGED <<ret, held>>
       ELSE /\ pc' = "idle"
            /\ loc' = << >>
            /\ IF ~ok
               THEN /\ ret' = Outcome("err")
                    /\ held' = held
               ELSE IF out.kind = "panic"
               THEN /\ ret' = Outcome("panic")
                    /\ held' = held
               ELSE /\ ret' = With(Outcome("ok"), [value |-> out.value])
                    /\ held' = IF loc.op = "get_markets"
                               THEN << [markets |-> out.value, time |-> now] >>
                               ELSE held
    /\ UNCHANGED <<engineVars, overflow_checks, now, scoreVars, riskVars, convVars, ledger>>

\* let market = Market { .. } of get_markets.
MarketOf(l) ==
    [name |-> l.base_token_symbol, comet_address |-> "comet",
     base_asset |-> l.base_asset, collateral_assets |-> l.collateral_assets,
     total_supply |-> l.total_supply_f64, total_borrow |-> l.total_borrow_f64,
     utilization_rate |-> l.utilization_rate,
     supply_apr |-> l.supply_apr, borrow_apr |-> l.borrow_apr]

GetMarkets ==
    /\ pc = "idle"
    /\ ledger # NoLedger
    /\ pc' = "baseToken"
    /\ loc' = [op |-> "get_markets", args |-> << >>]
    /\ reads' = << >>
    /\ ret' = NoRet
    /\ UNCHANGED <<engineVars, overflow_checks, now, scoreVars, riskVars, convVars, ledger, held>>

ReadBaseToken ==
    /\ pc = "baseToken"
    /\ \E ok \in BOOLEAN :
         ReadStep("baseToken", << >>, ledger.baseToken, ok,
                  Continue("symbol", With(loc, [base_token |-> ledger.baseToken])))

ReadBaseSymbol ==
    /\ pc = "symbol"
    /\ \E ok \in BOOLEAN :
         ReadStep("symbol", <<loc.base_token>>, ledger.symbol[loc.base_token], ok,
                  Continue("decimals",
                           With(loc, [base_token_symbol |-> ledger.symbol[loc.base_token]])))

ReadBaseDecimals ==
    /\ pc = "decimals"
    /\ \E ok \in BOOLEAN :
         ReadStep("decimals", <<loc.base_token>>, ledger.decimals, ok,
                  Continue("getPrice", With(loc, [base_token_decimals |-> ledger.decimals])))

ReadBasePrice ==
    /\ pc = "getPrice"
    /\ \E ok \in BOOLEAN :
         ReadStep("getPrice", <<loc.base_token>>, ledger.price[loc.base_token], ok,
                  LET BaseAsset(base_token_price_f64) ==
                          IF base_token_price_f64.panic THEN Unwind
                          ELSE Continue("totalSupply",
                                 With(loc, [base_asset |->
                                     [address |-> loc.base_token,
                                      symbol |-> loc.base_token_symbol,
                                      decimals |-> loc.base_token_decimals,
                                      price |-> base_token_price_f64.v,
                                      asset_type |-> "Base",
                                      collateral_factor |-> F64Zero(0),
                                      liquidation_factor |-> F64Zero(0),
                                      liquidation_penalty |-> F64Zero(0),
                                      supply_cap |-> U256Zero,
                                      borrow_cap |-> U256Zero]]))
                  IN  BaseAsset(u256_to_f64(ledger.price[loc.base_token], PriceDecimals,
                                            overflow_checks)))

ReadTotalSupply ==
    /\ pc = "totalSupply"
    /\ \E ok \in BOOLEAN :
         ReadStep("totalSupply", << >>, ledger.totalSupply, ok,
                  Continue("totalBorrow", With(loc, [total_supply |-> ledger.totalSupply])))

\* ReadTotalBorrow with the division made whatever total_supply is.
ReadTotalBorrowUnguarded ==
    /\ pc = "totalBorrow"
    /\ \E ok \in BOOLEAN :
         ReadStep("totalBorrow", << >>, ledger.totalBorrow, ok,
                  LET Totals(total_supply_f64, total_borrow_f64) ==
                          IF total_supply_f64.panic \/ total_borrow_f64.panic THEN Unwind
                          ELSE Continue("getSupplyRate",
                                 With(loc, [total_supply_f64 |-> total_supply_f64.v,
                                            total_borrow_f64 |-> total_borrow_f64.v,
                                            utilization_rate |->
                                                F64Div(total_borrow_f64.v,
                                                       total_supply_f64.v)]))
                  IN  Totals(u256_to_f64(loc.total_supply, loc.base_token_decimals,
                                         overflow_checks),
                             u256_to_f64(ledger.totalBorrow, loc.base_token_decimals,
                                         overflow_checks)))

ReadTotalBorrow ==
    /\ pc = "totalBorrow"
    /\ \E ok \in BOOLEAN :
         ReadStep("totalBorrow", << >>, ledger.totalBorrow, ok,
                  LET Totals(total_supply_f64, total_borrow_f64) ==
                          IF total_supply_f64.panic \/ total_borrow_f64.panic THEN Unwind
                          ELSE Continue("getSupplyRate",
                                 With(loc, [total_supply_f64 |-> total_supply_f64.v,
                                            total_borrow_f64 |-> total_borrow_f64.v,
                                            utilization_rate |->
                                                IF F64Gt(total_supply_f64.v, F64Zero(0))
                                                THEN F64Div(total_borrow_f64.v,
                                                            total_supply_f64.v)
                                                ELSE F64Zero(0)]))
                  IN  Totals(u256_to_f64(loc.total_supply, loc.base_token_decimals,
                                         overflow_checks),
                             u256_to_f64(ledger.totalBorrow, loc.base_token_decimals,
                                         overflow_checks)))

ReadSupplyRate ==
    /\ pc = "getSupplyRate"
    /\ \E ok \in BOOLEAN :
         ReadStep("getSupplyRate", << >>, ledger.supplyRate, ok,
                  Continue("getBorrowRate", With(loc, [supply_rate |-> ledger.supplyRate])))

ReadBorrowRate ==
    /\ pc = "getBorrowRate"
    /\ \E ok \in BOOLEAN :
         ReadStep("getBorrowRate", << >>, ledger.borrowRate, ok,
                  LET Rates(supply, borrow) ==
                          IF supply.panic \/ borrow.panic THEN Unwind
                          ELSE Continue("numAssets",
                                 With(loc, [supply_apr |-> F64Mul(supply.v, SECONDS_PER_YEAR),
                                            borrow_apr |-> F64Mul(borrow.v, SECONDS_PER_YEAR)]))
                  IN  Rates(u256_to_f64(loc.supply_rate, FactorDecimals, overflow_checks),
                            u256_to_f64(ledger.borrowRate, FactorDecimals, overflow_checks)))

\* for i in 0..num_assets: with no asset the market is complete.
ReadNumAssets ==
    /\ pc = "numAssets"
    /\ \E ok \in BOOLEAN :
         ReadStep("numAssets", << >>, Len(ledger.assets), ok,
                  LET l == With(loc, [num_assets |-> Len(ledger.assets), i |-> 0,
                                      collateral_assets |-> EmptyMap])
                  IN  IF l.num_assets = 0 THEN Return(<< MarketOf(l) >>)
                      ELSE Continue("getAssetInfo", l))

ReadAssetInfo ==
    /\ pc = "getAssetInfo"
    /\ \E ok \in BOOLEAN :
         ReadStep("getAssetInfo", <<loc.i>>, ledger.assets[loc.i + 1], ok,
                  Continue("assetSymbol", With(loc, [asset_info |-> ledger.assets[loc.i + 1]])))

ReadAssetSymbol ==
    /\ pc = "assetSymbol"
    /\ \E ok \in BOOLEAN :
         ReadStep("symbol", <<loc.asset_info.asset>>,
                  ledger.symbol[loc.asset_info.asset], ok,
                  Continue("assetPrice",
                           With(loc, [asset_symbol |-> ledger.symbol[loc.asset_info.asset]])))

\* The price of asset i, the Asset and its insertion; after the last asset
\* the market is complete.
ReadAssetPrice ==
    /\ pc = "assetPrice"
    /\ \E ok \in BOOLEAN :
         ReadStep("getPrice", <<loc.asset_info.asset>>,
                  ledger.price[loc.asset_info.asset], ok,
                  LET info == loc.asset_info
                      Inserted(l) ==
                          IF l.i = l.num_assets THEN Return(<< MarketOf(l) >>)
                          ELSE Continue("getAssetInfo", l)
                      Insert(asset) ==
                          Inserted(With(loc, [i |-> loc.i + 1,
                                              collateral_assets |->
                                                  MapInsert(loc.collateral_assets,
                                                            info.asset, asset)]))
                      Built(asset_price_f64, collateral_factor, liquidation_factor,
                            liquidation_penalty) ==
                          IF \/ asset_price_f64.panic \/ collateral_factor.panic
                             \/ liquidation_factor.panic \/ liquidation_penalty.panic
                          THEN Unwind
                          ELSE Insert([address |-> info.asset,
                                       symbol |-> loc.asset_symbol,
                                       decimals |-> info.decimals,
                                       price |-> asset_price_f64.v,
                                       asset_type |-> "Collateral",
                                       collateral_factor |-> collateral_factor.v,
                                       liquidation_factor |-> liquidation_factor.v,
                                       liquidation_penalty |-> liquidation_penalty.v,
                                       supply_cap |-> info.supplyCap,
                                       borrow_cap |-> U256Zero])
                  IN  Built(u256_to_f64(ledger.price[info.asset], PriceDecimals,
                                        overflow_checks),
                            u256_to_f64(info.borrowCollateralFactor, FactorDecimals,
                                        overflow_checks),
                            u256_to_f64(info.liquidateCollateralFactor, FactorDecimals,
                                        overflow_checks),
                            u256_to_f64(info.liquidationFactor, FactorDecimals,
                                        overflow_checks)))

\* The account whose position is asked for.
TestAccount == "alice"

\* collateral_balances.iter().fold(0.0, |acc, (address, amount)| ..) with the
\* liquidation factor left out for the collateral factor.
RECURSIVE AdjustedByCollateralFactor(_, _, _, _, _)
AdjustedByCollateralFactor(order, i, acc, collateral_balances, market_) ==
    IF i > Len(order) THEN acc
    ELSE LET asset == market_.collateral_assets[order[i]]
             amount == collateral_balances[order[i]]
         IN  AdjustedByCollateralFactor(order, i + 1,
                 F64Add(acc, F64Mul(F64Mul(amount, asset.price), asset.collateral_factor)),
                 collateral_balances, market_)

\* collateral_balances.iter().fold(0.0, |acc, (address, amount)|
\*     acc + (amount * asset.price * asset.liquidation_factor)), the entries
\* taken in the order the map iterates them.
RECURSIVE adjusted_collateral_value(_, _, _, _, _)
adjusted_collateral_value(order, i, acc, collateral_balances, market_) ==
    IF i > Len(order) THEN acc
    ELSE LET asset == market_.collateral_assets[order[i]]
             amount == collateral_balances[order[i]]
         IN  adjusted_collateral_value(order, i + 1,
                 F64Add(acc, F64Mul(F64Mul(amount, asset.price), asset.liquidation_factor)),
                 collateral_balances, market_)

\* PositionOf with total_borrow_value taken from base_balance whatever its sign.
PositionOfSigned(l, order) ==
    LET market_ == l.args[1]
        Position(total_borrow_value) ==
            [address |-> l.args[2],
             base_balance |-> l.base_balance_f64,
             collateral_balances |-> l.collateral_balances,
             total_collateral_value |-> l.total_collateral_value,
             total_borrow_value |-> total_borrow_value,
             health_factor |->
                 IF F64Gt(total_borrow_value, F64Zero(0))
                 THEN F64Div(adjusted_collateral_value(order, 1, F64Zero(0),
                                                       l.collateral_balances, market_),
                             total_borrow_value)
                 ELSE F64Hundred]
    IN  Position(F64Mul(F64Neg(l.base_balance_f64), market_.base_asset.price))

\* PositionOf with the division made whatever total_borrow_value is.
PositionOfUnguarded(l, order) ==
    LET market_ == l.args[1]
        Position(total_borrow_value) ==
            [address |-> l.args[2],
             base_balance |-> l.base_balance_f64,
             collateral_balances |-> l.collateral_balances,
             total_collateral_value |-> l.total_collateral_value,
             total_borrow_value |-> total_borrow_value,
             health_factor |->
                 F64Div(adjusted_collateral_value(order, 1, F64Zero(0),
                                                  l.collateral_balances, market_),
                        total_borrow_value)]
    IN  Position(IF F64Lt(l.base_balance_f64, F64Zero(0))
                 THEN F64Mul(F64Neg(l.base_balance_f64), market_.base_asset.price)
                 ELSE F64Zero(0))

\* The end of get_user_position: total_borrow_value, health_factor and the
\* UserPosition.
PositionOf(l, order) ==
    LET market_ == l.args[1]
        Position(total_borrow_value) ==
            [address |-> l.args[2],
             base_balance |-> l.base_balance_f64,
             collateral_balances |-> l.collateral_balances,
             total_collateral_value |-> l.total_collateral_value,
             total_borrow_value |-> total_borrow_value,
             health_factor |->
                 IF F64Gt(total_borrow_value, F64Zero(0))
                 THEN F64Div(adjusted_collateral_value(order, 1, F64Zero(0),
                                                       l.collateral_balances, market_),
                             total_borrow_value)
                 ELSE F64Hundred]
    IN  Position(IF F64Lt(l.base_balance_f64, F64Zero(0))
                 THEN F64Mul(F64Neg(l.base_balance_f64), market_.base_asset.price)
                 ELSE F64Zero(0))

\* get_user_position(&market, user_address), the market being the one the
\* last get_markets that succeeded returned.
GetUserPosition ==
    /\ pc = "idle"
    /\ held # << >>
    /\ pc' = "balanceOf"
    /\ loc' = [op |-> "get_user_position", args |-> <<held[1].markets[1], TestAccount>>]
    /\ reads' = << >>
    /\ ret' = NoRet
    /\ UNCHANGED <<engineVars, overflow_checks, now, scoreVars, riskVars, convVars, ledger, held>>

ReadBalanceOf ==
    /\ pc = "balanceOf"
    /\ \E ok \in BOOLEAN :
         ReadStep("balanceOf", <<loc.args[2]>>, ledger.balanceOf, ok,
                  Continue("borrowBalanceOf", With(loc, [base_balance |-> ledger.balanceOf])))

\* base_balance_f64, and the loop over market.collateral_assets made ready;
\* a market without collateral assets ends the call here.
ReadBorrowBalanceOf ==
    /\ pc = "borrowBalanceOf"
    /\ \E ok \in BOOLEAN :
         ReadStep("borrowBalanceOf", <<loc.args[2]>>, ledger.borrowBalanceOf, ok,
                  LET market_ == loc.args[1]
                      borrow_balance == ledger.borrowBalanceOf
                      base_decimals == market_.base_asset.decimals
                      Ready(l) ==
                          IF l.todo = {} THEN Return(PositionOf(l, << >>))
                          ELSE Continue("collateralBalanceOf", l)
                      BaseBalance(converted) ==
                          IF converted.panic THEN Unwind
                          ELSE Ready(With(loc, [base_balance_f64 |->
                                                    IF NatIsZero(borrow_balance)
                                                    THEN converted.v
                                                    ELSE F64Neg(converted.v),
                                                collateral_balances |-> EmptyMap,
                                                total_collateral_value |-> F64Zero(0),
                                                todo |-> DOMAIN market_.collateral_assets]))
                  IN  BaseBalance(
                          IF NatIsZero(borrow_balance)
                          THEN u256_to_f64(loc.base_balance, base_decimals, overflow_checks)
                          ELSE u256_to_f64(borrow_balance, base_decimals, overflow_checks)))

\* ReadCollateralBalanceOf with every balance inserted, zero or not.
ReadCollateralBalanceOfAll ==
    /\ pc = "collateralBalanceOf"
    /\ \E ok \in BOOLEAN, asset_address \in loc.todo :
         LET asset == loc.args[1].collateral_assets[asset_address]
             Turn(l, panicked) ==
                 \E order \in (IF ok /\ ~panicked /\ l.todo = {}
                               THEN Orders(DOMAIN l.collateral_balances) ELSE { << >> }) :
                     ReadStep("collateralBalanceOf", <<loc.args[2], asset_address>>,
                              ledger.collateralBalanceOf[asset_address], ok,
                              IF panicked THEN Unwind
                              ELSE IF l.todo = {} THEN Return(PositionOf(l, order))
                              ELSE Continue("collateralBalanceOf", l))
             Balance(collateral_balance_f64, positive) ==
                 Turn(With(loc,
                           [todo |-> loc.todo \ {asset_address},
                            collateral_balances |->
                                IF positive
                                THEN MapInsert(loc.collateral_balances, asset_address,
                                               collateral_balance_f64.v)
                                ELSE loc.collateral_balances,
                            total_collateral_value |->
                                IF positive
                                THEN F64Add(loc.total_collateral_value,
                                            F64Mul(collateral_balance_f64.v, asset.price))
                                ELSE loc.total_collateral_value]),
                      collateral_balance_f64.panic)
             Read(collateral_balance_f64) ==
                 Balance(collateral_balance_f64, TRUE)
         IN  Read(u256_to_f64(ledger.collateralBalanceOf[asset_address], asset.decimals,
                              overflow_checks))

\* One turn of for (asset_address, asset) in &market.collateral_assets, in
\* whatever order the HashMap iterates; after the last turn the fold, which
\* iterates collateral_balances in whatever order that HashMap has.
ReadCollateralBalanceOf ==
    /\ pc = "collateralBalanceOf"
    /\ \E ok \in BOOLEAN, asset_address \in loc.todo :
         LET asset == loc.args[1].collateral_assets[asset_address]
             Turn(l, panicked) ==
                 \E order \in (IF ok /\ ~panicked /\ l.todo = {}
                               THEN Orders(DOMAIN l.collateral_balances) ELSE { << >> }) :
                     ReadStep("collateralBalanceOf", <<loc.args[2], asset_address>>,
                              ledger.collateralBalanceOf[asset_address], ok,
                              IF panicked THEN Unwind
                              ELSE IF l.todo = {} THEN Return(PositionOf(l, order))
                              ELSE Continue("collateralBalanceOf", l))
             Balance(collateral_balance_f64, positive) ==
                 Turn(With(loc,
                           [todo |-> loc.todo \ {asset_address},
                            collateral_balances |->
                                IF positive
                                THEN MapInsert(loc.collateral_balances, asset_address,
                                               collateral_balance_f64.v)
                                ELSE loc.collateral_balances,
                            total_collateral_value |->
                                IF positive
                                THEN F64Add(loc.total_collateral_value,
                                            F64Mul(collateral_balance_f64.v, asset.price))
                                ELSE loc.total_collateral_value]),
                      collateral_balance_f64.panic)
             Read(collateral_balance_f64) ==
                 Balance(collateral_balance_f64,
                         F64Gt(collateral_balance_f64.v, F64Zero(0)))
         IN  Read(u256_to_f64(ledger.collateralBalanceOf[asset_address], asset.decimals,
                              overflow_checks))

\* The clock advances.
Tick ==
    /\ now < MaxTime
    /\ now' = now + 1
    /\ UNCHANGED <<engineVars, overflow_checks, scoreVars, riskVars, convVars, clientVars>>

\* The chain advances.
NewBlock ==
    /\ ledger # NoLedger
    /\ ledger.block < MaxBlock
    /\ ledger' = NextBlock(ledger)
    /\ UNCHANGED <<engineVars, overflow_checks, now, scoreVars, riskVars, convVars,
                   pc, loc, reads, ret, held>>

InitClient ==
    /\ overflow_checks \in BOOLEAN
    /\ now = 0
    /\ findings = << >>
    /\ risk_score = << >>
    /\ RiskIdle
    /\ ConvIdle
    /\ ledger \in TestLedgers
    /\ pc = "idle"
    /\ loc = << >>
    /\ reads = << >>
    /\ ret = NoRet
    /\ held = << >>
    /\ EngineIdle

NextClient ==
    \/ GetMarkets
    \/ ReadBaseToken
    \/ ReadBaseSymbol
    \/ ReadBaseDecimals
    \/ ReadBasePrice
    \/ ReadTotalSupply
    \/ ReadTotalBorrow
    \/ ReadSupplyRate
    \/ ReadBorrowRate
    \/ ReadNumAssets
    \/ ReadAssetInfo
    \/ ReadAssetSymbol
    \/ ReadAssetPrice
    \/ GetUserPosition
    \/ ReadBalanceOf
    \/ ReadBorrowBalanceOf
    \/ ReadCollateralBalanceOf
    \/ Tick
    \/ NewBlock

SpecClient == InitClient /\ [][NextClient]_vars

----------------------------------------------------------------------------
(* lib.rs: RiskEngine::assess_risks hands each market get_markets returned  *)
(* to a RiskProcessor.  The engine is the client and the processor on the   *)
(* same markets, at one time and one block.                                 *)

\* for market in markets { self.assess_market(&market) }: the caller hands
\* the market it holds to the RiskProcessor.
ForMarket ==
    /\ pc = "idle"
    /\ held # << >>
    /\ market = << >>
    /\ market' = << held[1].markets[1] >>
    /\ UNCHANGED <<engineVars, overflow_checks, now, scoreVars, config, user, last_op,
                   convVars, clientVars>>

InitEngine == InitClient

NextEngine ==
    \/ GetMarkets
    \/ ReadBaseToken
    \/ ReadBaseSymbol
    \/ ReadBaseDecimals
    \/ ReadBasePrice
    \/ ReadTotalSupply
    \/ ReadTotalBorrow
    \/ ReadSupplyRate
    \/ ReadBorrowRate
    \/ ReadNumAssets
    \/ ReadAssetInfo
    \/ ReadAssetSymbol
    \/ ReadAssetPrice
    \/ GetUserPosition
    \/ ReadBalanceOf
    \/ ReadBorrowBalanceOf
    \/ ReadCollateralBalanceOf
    \/ ForMarket
    \/ AssessMarket
    \/ SimulateMarketConditions

SpecEngine == InitEngine /\ [][NextEngine]_vars

----------------------------------------------------------------------------
(* lib.rs and bin/risk-engine-cli.rs: callers of one RiskEngine.  Each      *)
(* caller calls assess_risks on the shared engine and runs the output code  *)
(* of a command on what the call returned.  A call is suspended only   *)
(* at an await that waits: for the lock, or for the answer of a ledger      *)
(* read; pc, loc, reads and ret are those of the caller that runs.          *)

MaxCallers == 2

Callers == 1..MaxCallers

\* enum Command, and the --market option: absent, the address of the Comet
\* proxy, or another address.
Commands == {"Assess", "CheckUser", "Simulate"}
MarketOptions == {"none", "comet", "other"}

\* Caller 1 is main of risk-engine-cli, which runs one command; the other
\* callers are tasks that use the library and print nothing.
CommandsOf(c) == IF c = 1 THEN Commands ELSE {"None"}

\* The client's variables of a caller that is not in get_markets.
Parked == [pc |-> "idle", loc |-> << >>, reads |-> << >>, ret |-> NoRet, held |-> << >>]

\* compound.get_markets() up to its first read.
FirstRead == [Parked EXCEPT !.pc = "baseToken",
                            !.loc = [op |-> "get_markets", args |-> << >>]]

NotCalled ==
    [stage |-> "none", ctx |-> Parked, fetch |-> "none", markets |-> << >>,
     assessments |-> << >>, result |-> << >>, report |-> << >>]

\* The ledgers the callers read, all without collateral assets (get_markets
\* returns after numAssets): a market at utilization 0.9, one nobody has
\* supplied to, and one with a base token of 20 decimals.
LedgerPlain == [LedgerBorrower EXCEPT !.assets = << >>]

SharedLedgers == {LedgerPlain, LedgerEmpty, LedgerWide}

\* The base token of 20 decimals is read by the build with overflow checks,
\* in which get_markets panics.
InitShared ==
    /\ ledger \in SharedLedgers
    /\ overflow_checks = (ledger = LedgerWide)
    /\ now = 0
    /\ findings = << >>
    /\ risk_score = << >>
    /\ RiskIdle
    /\ ConvIdle
    /\ pc = Parked.pc
    /\ loc = Parked.loc
    /\ reads = Parked.reads
    /\ ret = Parked.ret
    /\ held = Parked.held
    /\ calls = [c \in Callers |-> NotCalled]
    /\ lock = NoLock
    /\ running = 0

\* engine.assess_risks(): the call starts and asks for the read side of the
\* lock.  Callers are numbered in the order in which they call.
CallAssessRisks(c) ==
    /\ calls[c].stage = "none"
    /\ \A d \in Callers : d < c => calls[d].stage # "none"
    /\ calls' = [calls EXCEPT ![c].stage = "read"]
    /\ UNCHANGED <<overflow_checks, now, scoreVars, riskVars, convVars, clientVars,
                   lock, running>>

\* read() is granted to a call that asks for it unless a writer holds the lock.
Granted(c) == calls[c].stage = "read" /\ lock.writer = 0

\* AcquireRead with self.compound.write() in the place of read().
AcquireWrite(c) ==
    /\ calls[c].stage = "read"
    /\ lock.writer = 0
    /\ lock.readers = {}
    /\ lock' = [lock EXCEPT !.writer = c]
    /\ calls' = [calls EXCEPT ![c].stage = "get_markets", ![c].ctx = FirstRead]
    /\ UNCHANGED <<overflow_checks, now, scoreVars, riskVars, convVars, clientVars,
                   running>>

\* let compound = self.compound.read().await: the read side is granted
\* unless a writer holds the lock; then get_markets runs to its first read.
AcquireRead(c) ==
    /\ Granted(c)
    /\ lock' = [lock EXCEPT !.readers = @ \cup {c}]
    /\ calls' = [calls EXCEPT ![c].stage = "get_markets", ![c].ctx = FirstRead]
    /\ UNCHANGED <<overflow_checks, now, scoreVars, riskVars, convVars, clientVars,
                   running>>

\* A call in get_markets can be polled when no other call runs, or the one
\* that runs is suspended at a read.
Pollable(c) ==
    /\ calls[c].stage = "get_markets"
    /\ running # c
    /\ running = 0 \/ pc # "idle"

\* The runtime polls the call of c: the caller that ran, if any, is
\* suspended at the ledger read it waits for.
Resume(c) ==
    /\ Pollable(c)
    /\ calls' = IF running = 0 THEN calls
                ELSE [calls EXCEPT ![running].ctx =
                          [pc |-> pc, loc |-> loc, reads |-> reads, ret |-> ret,
                           held |-> held]]
    /\ pc' = calls[c].ctx.pc
    /\ loc' = calls[c].ctx.loc
    /\ reads' = calls[c].ctx.reads
    /\ ret' = calls[c].ctx.ret
    /\ held' = calls[c].ctx.held
    /\ running' = c
    /\ UNCHANGED <<overflow_checks, now, scoreVars, riskVars, convVars, ledger, lock>>

\* get_markets has returned to the caller that runs.
MarketsFetched(c) ==
    /\ running = c
    /\ pc = "idle"
    /\ ret.op = "get_markets"

\* for market in markets { let assessment = self.assess_market(&market)
\* .await?; assessments.push(assessment) }: one turn of the loop.
AssessNext(c) ==
    /\ MarketsFetched(c)
    /\ ret.status = "ok"
    /\ calls[c].stage # "unwinding"
    /\ Len(calls[c].assessments) < Len(ret.value)
    /\ LET Pushed(assessment) ==
               IF assessment.panic
               THEN [calls EXCEPT ![c].stage = "unwinding"]
               ELSE [calls EXCEPT ![c].stage = "loop",
                                  ![c].assessments = Append(@, assessment.v)]
       IN  calls' = Pushed(assess_market(ret.value[Len(calls[c].assessments) + 1],
                                         now, config, overflow_checks))
    /\ UNCHANGED <<overflow_checks, now, scoreVars, riskVars, convVars, clientVars,
                   lock, running>>

\* A line the command prints: what it is about, its values, and whether the
\* values are literals of the program text.
Line(about, values, literal) == [about |-> about, values |-> values, literal |-> literal]

\* markets.into_iter().filter(|m| m.market_address == market_addr)
RECURSIVE FilterByMarket(_, _)
FilterByMarket(assessments, option) ==
    IF assessments = << >> THEN << >>
    ELSE LET rest == FilterByMarket(Tail(assessments), option)
         IN  IF option = "none" \/ Head(assessments).market_address = option
             THEN <<Head(assessments)>> \o rest
             ELSE rest

\* println!("\nMarket: {} ({})", ..) of an assessment
MarketLine(assessment) ==
    Line("market", <<assessment.market_name, assessment.market_address>>, FALSE)

\* Command::Assess: the report of every assessment.
RECURSIVE AssessReport(_)
AssessReport(assessments) ==
    IF assessments = << >> THEN << >>
    ELSE << MarketLine(Head(assessments)),
            Line("risk_score", <<Head(assessments).risk_score>>, FALSE),
            Line("findings", Outline(Head(assessments).findings), FALSE) >>
         \o AssessReport(Tail(assessments))

\* Command::CheckUser with the position read from the ledger left out.
CheckUserReportUnfinished(assessments) ==
    IF assessments = << >>
    THEN << Line("notice", <<"No matching markets found">>, TRUE) >>
    ELSE << MarketLine(assessments[1]) >>

\* Command::CheckUser: the first market and the user position of the text.
CheckUserReport(assessments) ==
    IF assessments = << >>
    THEN << Line("notice", <<"No matching markets found">>, TRUE) >>
    ELSE << MarketLine(assessments[1]),
            Line("user_position",
                 <<"Base Balance: 1,000.00 USDC",
                   "Collateral: 0.5 ETH (worth approximately $1,000)",
                   "Health Factor: 2.0",
                   "Position Status: Healthy">>, TRUE) >>

\* Command::Simulate: the first market and the simulation results of the text.
SimulateReport(assessments) ==
    IF assessments = << >>
    THEN << Line("notice", <<"No matching markets found">>, TRUE) >>
    ELSE << MarketLine(assessments[1]),
            Line("simulation",
                 <<"If utilization increases by 10%, risk score would increase by 15 points",
                   "If largest collateral price drops by 20%, 5% of positions would be liquidated",
                   "Stress test shows current market can handle up to 25% price drop before cascade">>,
                 TRUE) >>

\* main: match cli.command on what engine.assess_risks().await? returned;
\* an error leaves main at the ? and nothing is printed.
Printed(command, option, result) ==
    IF result.status # "ok" \/ command = "None" THEN << >>
    ELSE LET Matched(markets) ==
                 CASE command = "Assess" -> AssessReport(markets)
                   [] command = "CheckUser" -> CheckUserReport(markets)
                   [] command = "Simulate" -> SimulateReport(markets)
         IN  Matched(FilterByMarket(result.assessments, option))

\* ResultOf that returns what was read and assessed whatever happened.
ResultOfPartial(c) ==
    [status |-> "ok",
     assessments |-> IF ret.status = "ok" THEN calls[c].assessments
                     ELSE << [market_name |-> "", market_address |-> "comet",
                              findings |-> << >>, risk_score |-> 0,
                              timestamp |-> now] >>]

\* What assess_risks returns: the error of get_markets at the ?, or
\* Ok(assessments) after the loop; a panic unwinds.
ResultOf(c) ==
    IF ret.status = "ok" /\ calls[c].stage # "unwinding"
    THEN [status |-> "ok", assessments |-> calls[c].assessments]
    ELSE [status |-> IF ret.status = "err" THEN "err" ELSE "panic",
          assessments |-> << >>]

\* assess_risks returns, the guard `compound` is dropped, and the caller,
\* which is not suspended in between, runs the output code of its command.
ReturnAssessments(c) ==
    /\ MarketsFetched(c)
    /\ (ret.status = "ok" /\ calls[c].stage # "unwinding")
           => Len(calls[c].assessments) = Len(ret.value)
    /\ \E command \in CommandsOf(c), option \in MarketOptions :
         calls' = [calls EXCEPT ![c].stage = "done",
                                ![c].ctx = Parked,
                                ![c].fetch = ret.status,
                                ![c].markets = IF ret.status = "ok" THEN ret.value
                                               ELSE << >>,
                                ![c].result = ResultOf(c),
                                ![c].report = Printed(command, option, ResultOf(c))]
    /\ lock' = [lock EXCEPT !.readers = @ \ {c},
                            !.writer = IF @ = c THEN 0 ELSE @]
    /\ running' = 0
    /\ pc' = Parked.pc
    /\ loc' = Parked.loc
    /\ reads' = Parked.reads
    /\ ret' = Parked.ret
    /\ held' = Parked.held
    /\ UNCHANGED <<overflow_checks, now, scoreVars, riskVars, convVars, ledger>>

NextShared ==
    \/ \E c \in Callers : CallAssessRisks(c)
    \/ \E c \in Callers : AcquireRead(c)
    \/ \E c \in Callers : Resume(c)
    \/ ReadBaseToken
    \/ ReadBaseSymbol
    \/ ReadBaseDecimals
    \/ ReadBasePrice
    \/ ReadTotalSupply
    \/ ReadTotalBorrow
    \/ ReadSupplyRate
    \/ ReadBorrowRate
    \/ ReadNumAssets
    \/ \E c \in Callers : AssessNext(c)
    \/ \E c \in Callers : ReturnAssessments(c)

SpecShared == InitShared /\ [][NextShared]_vars

PositionReturned ==
    /\ ret.op = "get_user_position"
    /\ ret.status = "ok"

\* The sum of balance x price x liquidation_factor over the first n entries
\* of a position's collateral, the entries in the given order.
RECURSIVE WeightedCollateral(_, _, _, _)
WeightedCollateral(order, n, position, market_) ==
    IF n = 0 THEN F64Zero(0)
    ELSE LET asset == market_.collateral_assets[order[n]]
         IN  F64Add(WeightedCollateral(order, n - 1, position, market_),
                    F64Mul(F64Mul(position.collateral_balances[order[n]], asset.price),
                           asset.liquidation_factor))

\* 1000 borrowed at base price 1 against one collateral of 1.0 unit priced
\* 2000 with liquidation_factor 0.825.
ExamplePosition(position, market_) ==
    /\ position.base_balance = F64Neg(F64FromNat(NatOfInt(1000)))
    /\ market_.base_asset.price = F64One
    /\ DOMAIN position.collateral_balances = {"weth"}
    /\ position.collateral_balances["weth"] = F64One
    /\ market_.collateral_assets["weth"].price = F64FromNat(NatOfInt(2000))
    /\ market_.collateral_assets["weth"].liquidation_factor = F64Dec(825, 3)

\* C5: a UserPosition returned by get_user_position with total_borrow_value > 0
\* has health_factor = (the sum over its collateral entries of balance x asset
\* price x asset liquidation_factor) / total_borrow_value; 1000 borrowed at
\* base price 1 against one collateral of 1.0 unit priced 2000 with
\* liquidation_factor 0.825 gives 1.65, and no liquidation finding with
\* buffer 0.05.
C5_HealthFactor ==
    (PositionReturned /\ F64Cmp(ret.value.total_borrow_value, F64Zero(0)) > 0) =>
        LET position == ret.value
            market_ == ret.args[1]
        IN  /\ \E order \in Orders(DOMAIN position.collateral_balances) :
                 position.health_factor =
                     F64Div(WeightedCollateral(order, Len(order), position, market_),
                            position.total_borrow_value)
            /\ ExamplePosition(position, market_) =>
                 /\ position.health_factor = F64Dec(165, 2)
                 /\ check_user_liquidation_risk(
                        position, RiskConfig(F64Dec(85, 2), F64Dec(5, 2), F64Dec(1, 1)),
                        now) = << >>

\* get_user_position returned the position of the example, health factor 1.65.
C5_Witness ==
    /\ PositionReturned
    /\ ExamplePosition(ret.value, ret.args[1])
    /\ ret.value.total_borrow_value = F64FromNat(NatOfInt(1000))
    /\ ret.value.health_factor = F64Dec(165, 2)

\* C14: a UserPosition returned by get_user_position whose total_borrow_value
\* is 0 has health_factor exactly 100.0, whatever its collateral balances are.
C14_NoBorrowIsHundred ==
    (PositionReturned /\ F64Eq(ret.value.total_borrow_value, F64Zero(0))) =>
        ret.value.health_factor = F64Hundred

\* get_user_position returned a position without borrow value that holds
\* collateral, with health factor 100.
C14_Witness ==
    /\ PositionReturned
    /\ F64Eq(ret.value.total_borrow_value, F64Zero(0))
    /\ DOMAIN ret.value.collateral_balances # {}
    /\ ret.value.health_factor = F64Hundred

\* max(0, a)
F64Max0(a) == IF F64Gt(a, F64Zero(0)) THEN a ELSE F64Zero(0)

\* C16: in a UserPosition returned by get_user_position, base_balance is the
\* negative of the converted borrow balance when the borrow balance the ledger
\* answered is not zero (the supply balance is ignored), and the converted
\* supply balance otherwise; total_borrow_value = max(0, -base_balance) x base
\* asset price, and is >= 0.
C16_BaseBalanceAndBorrowValue ==
    PositionReturned =>
        LET position == ret.value
            base_asset == ret.args[1].base_asset
        IN  /\ reads[1].fn = "balanceOf" /\ reads[2].fn = "borrowBalanceOf"
            /\ position.base_balance =
                 IF reads[2].value # U256Zero
                 THEN F64Neg(u256_to_f64(reads[2].value, base_asset.decimals,
                                         overflow_checks).v)
                 ELSE u256_to_f64(reads[1].value, base_asset.decimals, overflow_checks).v
            /\ position.total_borrow_value =
                 F64Mul(F64Max0(F64Neg(position.base_balance)), base_asset.price)
            /\ F64Ge(position.total_borrow_value, F64Zero(0))

\* The account answered with a supply balance of 5 and a borrow balance of
\* 3000: the position has base_balance -3000 and total_borrow_value 3000.
C16_Witness ==
    /\ PositionReturned
    /\ reads[1].value = Scaled(5, 6)
    /\ reads[2].value = Scaled(3000, 6)
    /\ ret.value.base_balance = F64Neg(F64FromNat(NatOfInt(3000)))
    /\ ret.value.total_borrow_value = F64FromNat(NatOfInt(3000))

\* The sum of balance x price over the first n entries of a position's
\* collateral, the entries in the given order.
RECURSIVE CollateralValue(_, _, _, _)
CollateralValue(order, n, position, market_) ==
    IF n = 0 THEN F64Zero(0)
    ELSE F64Add(CollateralValue(order, n - 1, position, market_),
                F64Mul(position.collateral_balances[order[n]],
                       market_.collateral_assets[order[n]].price))

\* C25: in a UserPosition returned by get_user_position, health_factor is
\* the sentinel 100.0 with total_borrow_value 0 exactly when the borrow
\* balance the ledger answered is zero; with a non-zero borrow balance, at
\* every base asset price (0 included), total_borrow_value is > 0, the
\* health_factor is the weighted collateral divided by it, and
\* check_user_liquidation_risk goes past its no-borrow return (a health
\* factor of 0 in that position gives a finding).
C25_SentinelOnlyWithoutBorrow ==
    PositionReturned =>
        LET position == ret.value
            market_ == ret.args[1]
            borrowed == reads[2].value # U256Zero
        IN  /\ reads[2].fn = "borrowBalanceOf"
            /\ (/\ position.health_factor = F64Hundred
                /\ F64Eq(position.total_borrow_value, F64Zero(0))) <=> ~borrowed
            /\ borrowed =>
                 /\ F64Gt(position.total_borrow_value, F64Zero(0))
                 /\ \E order \in Orders(DOMAIN position.collateral_balances) :
                      position.health_factor =
                          F64Div(WeightedCollateral(order, Len(order), position, market_),
                                 position.total_borrow_value)
                 /\ check_user_liquidation_risk(
                        [position EXCEPT !.health_factor = F64Zero(0)],
                        RiskConfig(F64Dec(85, 2), F64Dec(5, 2), F64Dec(1, 1)),
                        now) # << >>

\* C17: in a UserPosition returned by get_user_position, collateral_balances
\* has an entry for a collateral asset of the market exactly when the balance
\* the ledger answered for that asset is strictly positive, every key of
\* collateral_balances is a key of the market's collateral_assets, and
\* total_collateral_value is the sum over the entries of balance x asset price.
C17_CollateralEntries ==
    PositionReturned =>
        LET position == ret.value
            market_ == ret.args[1]
            assets == DOMAIN market_.collateral_assets
        IN  /\ \A a \in assets :
                 \E i \in 3..Len(reads) :
                     /\ reads[i].fn = "collateralBalanceOf"
                     /\ reads[i].arg = <<position.address, a>>
                     /\ a \in DOMAIN position.collateral_balances
                          <=> reads[i].value # U256Zero
            /\ Len(reads) = 2 + Cardinality(assets)
            /\ DOMAIN position.collateral_balances \subseteq assets
            /\ \E order \in Orders(DOMAIN position.collateral_balances) :
                 position.total_collateral_value =
                     CollateralValue(order, Len(order), position, market_)

\* A position in a market of two collateral assets: one WETH worth 2000 is
\* held and has an entry, no WBTC is held and it has none.
C17_Witness ==
    /\ PositionReturned
    /\ DOMAIN ret.args[1].collateral_assets = {"weth", "wbtc"}
    /\ DOMAIN ret.value.collateral_balances = {"weth"}
    /\ ret.value.total_collateral_value = F64FromNat(NatOfInt(2000))

\* utilization_rate = total_borrow / total_supply when total_supply > 0, else
\* 0, with neither total negative.
UtilizationRecomputed(m) ==
    /\ F64Ge(m.total_supply, F64Zero(0))
    /\ F64Ge(m.total_borrow, F64Zero(0))
    /\ F64Gt(m.total_supply, F64Zero(0)) =>
         m.utilization_rate = F64Div(m.total_borrow, m.total_supply)
    /\ F64Eq(m.total_supply, F64Zero(0)) => m.utilization_rate = F64Zero(0)

\* The Markets in the hands of the callers: the Vec get_markets returned, the
\* argument of a get_user_position in progress or returned, and the market
\* handed to the RiskProcessor.
MarketsInHand ==
    (IF held # << >> THEN {held[1].markets[1]} ELSE {})
        \cup (IF market # << >> THEN {market[1]} ELSE {})
        \cup (IF pc # "idle" /\ loc.op = "get_user_position" THEN {loc.args[1]} ELSE {})
        \cup (IF ret.op = "get_user_position" THEN {ret.args[1]} ELSE {})

\* C15: every Market returned by get_markets has utilization_rate =
\* total_borrow / total_supply when total_supply > 0 and 0 when total_supply
\* = 0, with both totals >= 0; and no operation afterwards (assessment,
\* simulation, position fetch) changes it: the markets in hand change only
\* when a get_markets returns, or by being handed on as they are.
C15_UtilizationRecomputed ==
    /\ [](\A m \in MarketsInHand : UtilizationRecomputed(m))
    /\ [][ /\ held' # held =>
               /\ ret'.op = "get_markets" /\ ret'.status = "ok"
               /\ held'[1].markets = ret'.value
           /\ market' # market => market = << >> /\ market' = << held[1].markets[1] >>
           /\ (AssessMarket \/ SimulateMarketConditions \/ GetUserPosition
                \/ ReadBalanceOf \/ ReadBorrowBalanceOf \/ ReadCollateralBalanceOf) =>
                 /\ market' = market
                 /\ held' = held
                 /\ MarketsInHand' \subseteq MarketsInHand \cup {held[1].markets[1]}
         ]_vars

\* A market of utilization 0.9 was returned by get_markets, handed to the
\* RiskProcessor and assessed, and is as it was returned.
C15_Witness ==
    /\ last_op.name = "assess_market"
    /\ market = << held[1].markets[1] >>
    /\ F64Gt(market[1].total_supply, F64Zero(0))
    /\ market[1].utilization_rate = F64Dec(9, 1)
    /\ market[1].utilization_rate = F64Div(market[1].total_borrow, market[1].total_supply)

\* A factor of an Asset lies in [0, 1].
FactorInUnit(factor) == F64Ge(factor, F64Zero(0)) /\ F64Le(factor, F64One)

\* C20: in every Market get_markets returns, the base asset has the role
\* Base and its collateral factor, liquidation factor and liquidation penalty
\* are 0, and every collateral asset has the role Collateral and its
\* collateral factor, liquidation factor and liquidation penalty each lie in
\* [0, 1], whatever 64-bit raw factors the ledger answers.
C20_AssetRolesAndFactors ==
    held # << >> =>
        \A i \in 1..Len(held[1].markets) :
            LET base_asset == held[1].markets[i].base_asset
                collateral_assets == held[1].markets[i].collateral_assets
            IN  /\ base_asset.asset_type = "Base"
                /\ base_asset.collateral_factor = F64Zero(0)
                /\ base_asset.liquidation_factor = F64Zero(0)
                /\ base_asset.liquidation_penalty = F64Zero(0)
                /\ \A a \in DOMAIN collateral_assets :
                      /\ collateral_assets[a].asset_type = "Collateral"
                      /\ FactorInUnit(collateral_assets[a].collateral_factor)
                      /\ FactorInUnit(collateral_assets[a].liquidation_factor)
                      /\ FactorInUnit(collateral_assets[a].liquidation_penalty)

\* The callers whose assess_risks call has returned.
Returned == { c \in DOMAIN calls : calls[c].stage = "done" }

\* C21: no value of a market or of a user position that a command prints is
\* taken from a fixed dataset: when assess_risks failed nothing is printed
\* in the place of the data, and when it succeeded every line about a
\* market, a score, findings or a user position is computed from what was
\* read, for the check-user command as for the others.
C21_NoMockValues ==
    \A c \in Returned :
        /\ calls[c].result.status # "ok" => calls[c].report = << >>
        /\ \A i \in 1..Len(calls[c].report) :
              calls[c].report[i].about \in {"market", "risk_score", "findings",
                                            "user_position"}
                  => ~calls[c].report[i].literal

\* C22: a call of assess_risks that returns Ok returns one RiskAssessment
\* for each Market its get_markets returned, in the order of the markets,
\* each with the name and the address of its market; when get_markets
\* failed, or a market could not be assessed, the call returns an error and
\* no assessment, never a part of the list.
C22_OneAssessmentPerMarket ==
    \A c \in Returned :
        LET returned == calls[c].result
        IN  /\ returned.status = "ok" =>
                  /\ calls[c].fetch = "ok"
                  /\ Len(returned.assessments) = Len(calls[c].markets)
                  /\ \A i \in 1..Len(calls[c].markets) :
                        /\ returned.assessments[i].market_name = calls[c].markets[i].name
                        /\ returned.assessments[i].market_address
                               = calls[c].markets[i].comet_address
            /\ calls[c].fetch # "ok" => returned.status = calls[c].fetch
            /\ returned.status # "ok" => returned.assessments = << >>

\* C22 happens: one call has returned the assessment of the market it
\* fetched, and another call, one of whose reads failed, has returned an
\* error.
C22_Witness ==
    \E c, d \in Returned :
        /\ calls[c].result.status = "ok"
        /\ Len(calls[c].markets) = 1
        /\ Len(calls[c].result.assessments) = 1
        /\ calls[d].fetch = "err"
        /\ calls[d].result.status = "err"

\* The callers whose assess_risks call is between the grant of the lock and
\* its return.
Fetching == { c \in DOMAIN calls : calls[c].stage \in {"get_markets", "loop", "unwinding"} }

\* The reads of get_markets on a market without collateral assets: where a
\* call can be suspended.
MarketReads ==
    {"baseToken", "symbol", "decimals", "getPrice", "totalSupply", "totalBorrow",
     "getSupplyRate", "getBorrowRate", "numAssets"}

\* Some step of some call can be taken: the lock is granted to a call that
\* asks for it, a suspended call is polled, the read the running call waits
\* for answers or fails, or the running call goes on after get_markets.
CanStep ==
    \/ \E c \in DOMAIN calls : Granted(c)
    \/ \E c \in DOMAIN calls : Pollable(c)
    \/ running # 0 /\ pc \in MarketReads
    \/ \E c \in DOMAIN calls : MarketsFetched(c)

\* C23: calls of assess_risks on one RiskEngine run together: a call holds
\* the read side of the client lock from its market fetch to the end of
\* its assessment loop and at no other time, nobody ever holds the write
\* side, a call that asks for the lock is granted it whoever else holds it,
\* and as long as a call is in progress some step can be taken.
C23_SharedLockOnly ==
    /\ lock.writer = 0
    /\ lock.readers = Fetching
    /\ \A c \in DOMAIN calls : calls[c].stage = "read" => Granted(c)
    /\ (\E c \in DOMAIN calls : calls[c].stage \notin {"none", "done"}) => CanStep

\* C23 happens: two calls hold the read side at once, one in its assessment
\* loop and one suspended in get_markets, while a third caller, if there is
\* one, may still ask for the lock.
C23_Witness ==
    \E c, d \in Fetching :
        /\ c # d
        /\ {c, d} \subseteq lock.readers
        /\ calls[c].stage = "loop"
        /\ calls[d].stage = "get_markets"
        /\ calls[d].ctx.pc # "idle"

\* C7: in get_markets and in get_user_position a ledger read that fails ends
\* the call at once with an error: a call still in progress has had no failed
\* read, and a failed read is the last read of its call (none is issued after
\* it, the same read included), the call has returned an error and no value,
\* has left no locals behind, and has left what is held as it was.
C7_ReadFailureEndsCall ==
    /\ pc # "idle" => \A i \in 1..Len(reads) : reads[i].ok
    /\ \A i \in 1..Len(reads) :
         ~reads[i].ok =>
            /\ i = Len(reads)
            /\ pc = "idle"
            /\ ret.op \in {"get_markets", "get_user_position"}
            /\ ret.status = "err"
            /\ "value" \notin DOMAIN ret
            /\ loc = << >>
            /\ held = ret.prev

\* get_user_position ended with an error at its third read, a collateral
\* balance, after two reads that succeeded.
C7_Witness ==
    /\ pc = "idle"
    /\ ret.op = "get_user_position"
    /\ ret.status = "err"
    /\ Len(reads) = 3
    /\ reads[1].ok /\ reads[2].ok /\ ~reads[3].ok
    /\ reads[3].fn = "collateralBalanceOf"

\* A snapshot is held that was fetched less than 60 seconds (the TTL) ago.
LiveSnapshot == held # << >> /\ now - held[1].time < 60

\* C8: after a get_markets that succeeded, a get_markets call made less than
\* 60 seconds later returns the snapshot fetched before, unchanged, and issues
\* no ledger read.
C8_ServedFromSnapshot ==
    [][ (GetMarkets /\ LiveSnapshot) =>
            /\ pc' = "idle"
            /\ reads' = << >>
            /\ ret'.op = "get_markets"
            /\ ret'.status = "ok"
            /\ ret'.value = held[1].markets
            /\ held' = held ]_vars

\* C9: the snapshot store answers a get with the snapshot last put exactly
\* when it was put less than TTL = 60 seconds before, and with nothing
\* otherwise: a get_markets call is answered with the held snapshot exactly
\* when that snapshot is live, and goes to the ledger exactly when it is not.
C9_SnapshotStore ==
    [][ GetMarkets =>
            ( LiveSnapshot <=> ( /\ pc' = "idle"
                                 /\ ret'.op = "get_markets"
                                 /\ ret'.value = held[1].markets ) ) ]_vars

====
